---------------------------- MODULE Spec2Model ----------------------------
(***************************************************************************)
(* Model of the dw-local-free ETL pipeline.                                *)
(*                                                                         *)
(*   - the daily_pipeline flow (workflows/daily_pipeline.py): the stage    *)
(*     sequence, the mapped fetch tasks, the task retry policy, the        *)
(*     data-quality gate and the materialized-view refresh;                *)
(*   - the relational store as the transforms use it (src/transform.py,    *)
(*     src/extract.py, src/seed_loader.py): raw tables, the location and   *)
(*     page dimensions, the weather and revision fact tables, with the     *)
(*     commit / rollback points of each handler.                           *)
(*                                                                         *)
(* Three specifications share the variables: Spec / FairSpec (the flow),   *)
(* WikiSpec (seed loader, page raw store, revision transform) and          *)
(* WeatherSpec (seed loader, weather raw store, weather transform).        *)
(***************************************************************************)
EXTENDS Integers, Sequences, FiniteSets, TLC

VARIABLES
    \* ---- flow state (one run of daily_pipeline) ----
    pc,               \* position of the flow function
    started,          \* stages in the order they started in this run
    dimTask,          \* ensure_location_dimension_task
    weatherFetch,     \* fetch_raw_weather.map(locations): one task run per location
    weatherTransform, \* transform_weather_to_fact_task
    pageFetch,        \* fetch_raw_wikipedia_page.map(wikipedia_pages)
    pageTransform,    \* upsert_wikipedia_dimension_and_facts_task
    weatherGate,      \* run_weather_data_quality_checkpoint
    pageGate,         \* run_wikipedia_data_quality_checkpoint
    refresh,          \* refresh_materialized_view.map(view_names)
    summary,          \* the summary the flow function returns
    \* ---- store state ----
    now,              \* datetime.now() / CURRENT_TIMESTAMP, a logical clock
    location,         \* core.location
    wikipedia_page,   \* core.wikipedia_page (type-2 SCD)
    page_id_seq,      \* serial of core.wikipedia_page.page_id
    raw_weather,      \* raw.weather_observations
    raw_wikipedia,    \* raw.wikipedia_pages
    weather,          \* core.weather
    revision,         \* core.revision
    txn,              \* the open connections of executions that overlap, and their positions
    last              \* the last handler call: its inputs, the state before it, its summary

flowVars == <<pc, started, dimTask, weatherFetch, weatherTransform, pageFetch,
              pageTransform, weatherGate, pageGate, refresh, summary>>
storeVars == <<now, location, wikipedia_page, page_id_seq, raw_weather,
               raw_wikipedia, weather, revision, txn, last>>
vars == <<pc, started, dimTask, weatherFetch, weatherTransform, pageFetch,
          pageTransform, weatherGate, pageGate, refresh, summary,
          now, location, wikipedia_page, page_id_seq, raw_weather,
          raw_wikipedia, weather, revision, txn, last>>

\* NULL / None. A column or array entry that may be null holds NULL or the
\* one-element tuple of its value.
NULL == <<>>
Some(v) == <<v>>

(***************************************************************************)
(* Bounds of the model.                                                    *)
(***************************************************************************)
\* Largest number of rows the location / page query of the flow returns.
MaxFanout == 1

(***************************************************************************)
(* Task policy of workflows/daily_pipeline.py (the @task decorators).      *)
(***************************************************************************)
DimensionRetries == 2
WeatherFetchRetries == 3
WeatherTransformRetries == 2
PageFetchRetries == 3
PageTransformRetries == 2
GateRetries == 0
RefreshRetries == 2

\* view_names of step 7.
ViewNames == <<"mart.daily_weather_aggregates", "mart.daily_wikipedia_page_stats">>

\* The execution order the flow's docstring lists.
StageOrder == <<"dimension_upsert", "weather_fetch", "weather_transform",
                "page_fetch", "revision_transform", "quality_gate", "view_refresh">>

(***************************************************************************)
(* A task run of the task engine: its state and the attempts started.      *)
(***************************************************************************)
NoTask == [state |-> "none", attempts |-> 0, result |-> "none"]
PendingTask == [state |-> "pending", attempts |-> 0, result |-> "none"]

FinalStates == {"completed", "failed", "not_ready"}

\* A task run that may begin an attempt.
Startable(t) == t.state \in {"pending", "awaiting_retry"}

StartAttemptUncounted(t) == [t EXCEPT !.state = "running"]

\* An attempt begins: the run count goes up by one.
StartAttempt(t) == [t EXCEPT !.state = "running", !.attempts = @ + 1]

\* An attempt ends with a result.
CompleteAttempt(t, res) == [t EXCEPT !.state = "completed", !.result = res]

RetryAlways(t, retries) == [t EXCEPT !.state = "awaiting_retry"]

\* An attempt ends with an error or a timeout: with `retries` retries the
\* run is attempted again while its run count is at most `retries`.
FailAttempt(t, retries) ==
    IF t.attempts <= retries
    THEN [t EXCEPT !.state = "awaiting_retry"]
    ELSE [t EXCEPT !.state = "failed"]

\* retry_delay_seconds of the fetch tasks.
WeatherFetchRetryDelay == 2
PageFetchRetryDelay == 2

\* The seconds the engine waits before the retry that follows attempt number
\* run_count: retry_delay_seconds is given as one number, which is the delay
\* of every retry.
RetryDelay(retry_delay_seconds, run_count) == retry_delay_seconds

\* The futures a .map() call returns: one pending task run per item.
MapTasks(n) == [i \in 1..n |-> PendingTask]

NoWait(futures) == TRUE

\* Every future of a mapped call has reached a final state.
AllFinal(futures) == \A i \in DOMAIN futures : futures[i].state \in FinalStates
AllCompleted(futures) == \A i \in DOMAIN futures : futures[i].state = "completed"

FanInNoDependency(futures) == "run"

\* A fan-in task called with the futures of the mapped tasks as its argument:
\* the engine waits until every upstream future is final, and runs the task
\* only when all of them completed; otherwise the task run is left NotReady
\* and the call raises in the flow.
FanInDecision(futures) ==
    IF ~AllFinal(futures) THEN "wait"
    ELSE IF AllCompleted(futures) THEN "run"
    ELSE "not_ready"

CheckpointNeverRaises(result) == "returned"

\* run_weather_data_quality_checkpoint / run_wikipedia_data_quality_checkpoint
\* on the dictionary the checkpoint returned.
CheckpointTaskOutcome(result) ==
    IF result.skipped THEN "returned"
    ELSE IF ~result.success THEN "raised"
    ELSE "returned"

\* run_weather_checkpoint / run_wikipedia_checkpoint: the dictionary returned
\* for a validation result; it carries no "skipped" key, so .get("skipped")
\* is None.
CheckpointResult(success) == [success |-> success, skipped |-> FALSE]

NoSummary == [pipeline_status |-> "none", views_refreshed |-> 0]

FlowInit ==
    /\ pc = "step1"
    /\ started = <<>>
    /\ dimTask = PendingTask
    /\ weatherFetch = <<>>
    /\ weatherTransform = NoTask
    /\ pageFetch = <<>>
    /\ pageTransform = NoTask
    /\ weatherGate = NoTask
    /\ pageGate = NoTask
    /\ refresh = <<>>
    /\ summary = NoSummary


\* A stage is recorded the first time it starts.
Mark(stage) ==
    IF \E i \in DOMAIN started : started[i] = stage THEN started
    ELSE Append(started, stage)

(***************************************************************************)
(* Step 1: ensure_location_dimension_task(), called in the flow.           *)
(***************************************************************************)
DimensionFailureIgnored(t) ==
    IF t.state \in {"completed", "failed"} THEN "step2" ELSE "step1"

\* Where the flow function is after an attempt of the task it called: the
\* call returns the result, raises the task's exception in the flow once
\* the task run is failed, or is still waiting for a retry.
DimensionCallOutcome(t) ==
    CASE t.state = "completed" -> "step2"
      [] t.state = "failed" -> "failed"
      [] OTHER -> "step1"

DimensionStart ==
    /\ pc = "step1"
    /\ Startable(dimTask)
    /\ dimTask' = StartAttempt(dimTask)
    /\ started' = Mark("dimension_upsert")
    /\ UNCHANGED <<pc, weatherFetch, weatherTransform, pageFetch, pageTransform,
                   weatherGate, pageGate, refresh, summary>>
    /\ UNCHANGED storeVars

\* The attempt returns the seed loader's summary or raises; the call
\* returns to the flow, or raises in it once the retries are used up.
DimensionEnd ==
    /\ pc = "step1"
    /\ dimTask.state = "running"
    /\ \E ok \in BOOLEAN :
         /\ dimTask' = IF ok THEN CompleteAttempt(dimTask, "success")
                        ELSE FailAttempt(dimTask, DimensionRetries)
         /\ pc' = DimensionCallOutcome(dimTask')
    /\ UNCHANGED <<started, weatherFetch, weatherTransform, pageFetch,
                   pageTransform, weatherGate, pageGate, refresh, summary>>
    /\ UNCHANGED storeVars

(***************************************************************************)
(* Step 2: the location query, then fetch_raw_weather.map(locations) and   *)
(* the call of the weather transform task on the futures.                  *)
(***************************************************************************)
FanOutWeather ==
    /\ pc = "step2"
    /\ \/ /\ \E n \in 0..MaxFanout :
                weatherFetch' = MapTasks(n)
          /\ started' = Mark("weather_fetch")
          /\ weatherTransform' = PendingTask
          /\ pc' = "step3"
       \* psycopg2.connect or the query raises in the flow function
       \/ /\ pc' = "failed"
          /\ UNCHANGED <<weatherFetch, started, weatherTransform>>
    /\ UNCHANGED <<dimTask, pageFetch, pageTransform, weatherGate, pageGate,
                   refresh, summary>>
    /\ UNCHANGED storeVars

FetchWeatherStart(i) ==
    /\ i \in DOMAIN weatherFetch
    /\ Startable(weatherFetch[i])
    /\ weatherFetch' = [weatherFetch EXCEPT ![i] = StartAttempt(@)]
    /\ UNCHANGED <<pc, started, dimTask, weatherTransform, pageFetch,
                   pageTransform, weatherGate, pageGate, refresh, summary>>
    /\ UNCHANGED storeVars

\* fetch_raw_weather: the API call and the raw insert succeed, or the
\* exception is logged and raised again (the attempt fails).
FetchWeatherEnd(i) ==
    /\ i \in DOMAIN weatherFetch
    /\ weatherFetch[i].state = "running"
    /\ \E ok \in BOOLEAN :
         weatherFetch' = [weatherFetch EXCEPT ![i] =
             IF ok THEN CompleteAttempt(@, "success")
             ELSE FailAttempt(@, WeatherFetchRetries)]
    /\ UNCHANGED <<pc, started, dimTask, weatherTransform, pageFetch,
                   pageTransform, weatherGate, pageGate, refresh, summary>>
    /\ UNCHANGED storeVars

(***************************************************************************)
(* Step 3: transform_weather_to_fact_task(weather_fetch_results).          *)
(***************************************************************************)
WeatherTransformStart ==
    /\ pc = "step3"
    /\ \/ /\ weatherTransform.state = "pending"
          /\ FanInDecision(weatherFetch) = "run"
          /\ weatherTransform' = StartAttempt(weatherTransform)
          /\ started' = Mark("weather_transform")
          /\ pc' = pc
       \/ /\ weatherTransform.state = "pending"
          /\ FanInDecision(weatherFetch) = "not_ready"
          /\ weatherTransform' = [weatherTransform EXCEPT !.state = "not_ready"]
          /\ started' = started
          /\ pc' = "failed"
       \/ /\ weatherTransform.state = "awaiting_retry"
          /\ weatherTransform' = StartAttempt(weatherTransform)
          /\ started' = started
          /\ pc' = pc
    /\ UNCHANGED <<dimTask, weatherFetch, pageFetch, pageTransform,
                   weatherGate, pageGate, refresh, summary>>
    /\ UNCHANGED storeVars

WeatherTransformEnd ==
    /\ pc = "step3"
    /\ weatherTransform.state = "running"
    /\ \E ok \in BOOLEAN :
         /\ weatherTransform' = IF ok THEN CompleteAttempt(weatherTransform, "success")
                                 ELSE FailAttempt(weatherTransform, WeatherTransformRetries)
         /\ pc' = CASE weatherTransform'.state = "completed" -> "step4"
                    [] weatherTransform'.state = "failed" -> "failed"
                    [] OTHER -> pc
    /\ UNCHANGED <<started, dimTask, weatherFetch, pageFetch, pageTransform,
                   weatherGate, pageGate, refresh, summary>>
    /\ UNCHANGED storeVars

(***************************************************************************)
(* Step 4: the page query, fetch_raw_wikipedia_page.map(wikipedia_pages)   *)
(* and the call of the revision transform task on the futures.             *)
(***************************************************************************)
\* SELECT page_title, page_language FROM core.wikipedia_page WHERE
\* is_current = true: the rows the page list is built from, one fetch task
\* per row.
CurrentPageRows(rows) == {r \in rows : r.is_current}

FanOutPages ==
    /\ pc = "step4"
    /\ \/ /\ \E n \in 0..MaxFanout :
                pageFetch' = MapTasks(n)
          /\ started' = Mark("page_fetch")
          /\ pageTransform' = PendingTask
          /\ pc' = "step5"
       \/ /\ pc' = "failed"
          /\ UNCHANGED <<pageFetch, started, pageTransform>>
    /\ UNCHANGED <<dimTask, weatherFetch, weatherTransform, weatherGate,
                   pageGate, refresh, summary>>
    /\ UNCHANGED storeVars

FetchPageStart(i) ==
    /\ i \in DOMAIN pageFetch
    /\ Startable(pageFetch[i])
    /\ pageFetch' = [pageFetch EXCEPT ![i] = StartAttempt(@)]
    /\ UNCHANGED <<pc, started, dimTask, weatherFetch, weatherTransform,
                   pageTransform, weatherGate, pageGate, refresh, summary>>
    /\ UNCHANGED storeVars

FetchPageEnd(i) ==
    /\ i \in DOMAIN pageFetch
    /\ pageFetch[i].state = "running"
    /\ \E ok \in BOOLEAN :
         pageFetch' = [pageFetch EXCEPT ![i] =
             IF ok THEN CompleteAttempt(@, "success")
             ELSE FailAttempt(@, PageFetchRetries)]
    /\ UNCHANGED <<pc, started, dimTask, weatherFetch, weatherTransform,
                   pageTransform, weatherGate, pageGate, refresh, summary>>
    /\ UNCHANGED storeVars

(***************************************************************************)
(* Step 5: upsert_wikipedia_dimension_and_facts_task(wikipedia_fetch_results) *)
(***************************************************************************)
PageTransformStart ==
    /\ pc = "step5"
    /\ \/ /\ pageTransform.state = "pending"
          /\ FanInDecision(pageFetch) = "run"
          /\ pageTransform' = StartAttempt(pageTransform)
          /\ started' = Mark("revision_transform")
          /\ pc' = pc
       \/ /\ pageTransform.state = "pending"
          /\ FanInDecision(pageFetch) = "not_ready"
          /\ pageTransform' = [pageTransform EXCEPT !.state = "not_ready"]
          /\ started' = started
          /\ pc' = "failed"
       \/ /\ pageTransform.state = "awaiting_retry"
          /\ pageTransform' = StartAttempt(pageTransform)
          /\ started' = started
          /\ pc' = pc
    /\ UNCHANGED <<dimTask, weatherFetch, weatherTransform, pageFetch,
                   weatherGate, pageGate, refresh, summary>>
    /\ UNCHANGED storeVars

PageTransformEnd ==
    /\ pc = "step5"
    /\ pageTransform.state = "running"
    /\ \E ok \in BOOLEAN :
         /\ pageTransform' = IF ok THEN CompleteAttempt(pageTransform, "success")
                              ELSE FailAttempt(pageTransform, PageTransformRetries)
         /\ pc' = CASE pageTransform'.state = "completed" -> "step6_weather"
                    [] pageTransform'.state = "failed" -> "failed"
                    [] OTHER -> pc
    /\ weatherGate' = IF pc' = "step6_weather" THEN PendingTask ELSE weatherGate
    /\ UNCHANGED <<started, dimTask, weatherFetch, weatherTransform, pageFetch,
                   pageGate, refresh, summary>>
    /\ UNCHANGED storeVars

(***************************************************************************)
(* Step 6: the two checkpoints, in the flow's try block; an exception of   *)
(* either is logged and raised again.                                      *)
(***************************************************************************)
\* What one attempt of a checkpoint task can meet: Great Expectations raises
\* (initialisation or checkpoint run), or the checkpoint returns a result.
CheckpointRuns == {[raised |-> TRUE, success |-> FALSE],
                   [raised |-> FALSE, success |-> TRUE],
                   [raised |-> FALSE, success |-> FALSE]}

\* The level of the message the checkpoint task logs about the dictionary
\* the checkpoint returned.
CheckpointTaskLog(result) ==
    IF result.skipped THEN "warning"
    ELSE IF ~result.success THEN "error"
    ELSE "info"

CheckpointAttemptSwallowsError(t, run) ==
    IF run.raised THEN CompleteAttempt(t, "error")
    ELSE IF CheckpointTaskOutcome(CheckpointResult(run.success)) = "raised"
         THEN [FailAttempt(t, GateRetries) EXCEPT !.result = "fail"]
         ELSE CompleteAttempt(t, IF run.success THEN "pass" ELSE "fail")

\* The task run after an attempt that met `run`.
CheckpointAttempt(t, run) ==
    IF run.raised THEN [FailAttempt(t, GateRetries) EXCEPT !.result = "error"]
    ELSE IF CheckpointTaskOutcome(CheckpointResult(run.success)) = "raised"
         THEN [FailAttempt(t, GateRetries) EXCEPT !.result = "fail"]
         ELSE CompleteAttempt(t, IF run.success THEN "pass" ELSE "fail")

WeatherCheckpointStart ==
    /\ pc = "step6_weather"
    /\ Startable(weatherGate)
    /\ weatherGate' = StartAttempt(weatherGate)
    /\ started' = Mark("quality_gate")
    /\ UNCHANGED <<pc, dimTask, weatherFetch, weatherTransform, pageFetch,
                   pageTransform, pageGate, refresh, summary>>
    /\ UNCHANGED storeVars

WeatherCheckpointEnd ==
    /\ pc = "step6_weather"
    /\ weatherGate.state = "running"
    /\ \E run \in CheckpointRuns :
         /\ weatherGate' = CheckpointAttempt(weatherGate, run)
         /\ pc' = CASE weatherGate'.state = "completed" -> "step6_wikipedia"
                    [] weatherGate'.state = "failed" -> "failed"
                    [] OTHER -> pc
    /\ pageGate' = IF pc' = "step6_wikipedia" THEN PendingTask ELSE pageGate
    /\ UNCHANGED <<started, dimTask, weatherFetch, weatherTransform, pageFetch,
                   pageTransform, refresh, summary>>
    /\ UNCHANGED storeVars

PageCheckpointStart ==
    /\ pc = "step6_wikipedia"
    /\ Startable(pageGate)
    /\ pageGate' = StartAttempt(pageGate)
    /\ UNCHANGED <<pc, started, dimTask, weatherFetch, weatherTransform,
                   pageFetch, pageTransform, weatherGate, refresh, summary>>
    /\ UNCHANGED storeVars

PageCheckpointEnd ==
    /\ pc = "step6_wikipedia"
    /\ pageGate.state = "running"
    /\ \E run \in CheckpointRuns :
         /\ pageGate' = CheckpointAttempt(pageGate, run)
         /\ pc' = CASE pageGate'.state = "completed" -> "step7"
                    [] pageGate'.state = "failed" -> "failed"
                    [] OTHER -> pc
    /\ UNCHANGED <<started, dimTask, weatherFetch, weatherTransform, pageFetch,
                   pageTransform, weatherGate, refresh, summary>>
    /\ UNCHANGED storeVars

(***************************************************************************)
(* Step 7: refresh_materialized_view.map(view_names), the summary, and     *)
(* the end of the run once the mapped task runs are final. The engine      *)
(* accepts the submission of the mapped runs, so the except branch around  *)
(* the .map() call is not taken.                                           *)
(***************************************************************************)
\* successful_refreshes: the statuses of the entries of refresh_results that
\* are dictionaries; the entries are the futures .map() returned.
SuccessfulRefreshes(results) ==
    Cardinality({i \in DOMAIN results : results[i].isDict /\ results[i].status = "success"})

\* refresh_results as the flow holds it: the futures of the mapped runs.
RefreshResults(futures) == [i \in DOMAIN futures |-> [isDict |-> FALSE, status |-> "none"]]

\* The summary dictionary of the flow.
Summary(results) == [pipeline_status |-> "success", views_refreshed |-> Len(results)]

RefreshMap ==
    /\ pc = "step7"
    /\ refresh' = MapTasks(Len(ViewNames))
    /\ started' = Mark("view_refresh")
    /\ summary' = Summary(RefreshResults(refresh'))
    /\ pc' = "returned"
    /\ UNCHANGED <<dimTask, weatherFetch, weatherTransform, pageFetch,
                   pageTransform, weatherGate, pageGate>>
    /\ UNCHANGED storeVars

RefreshStart(v) ==
    /\ v \in DOMAIN refresh
    /\ Startable(refresh[v])
    /\ refresh' = [refresh EXCEPT ![v] = StartAttempt(@)]
    /\ UNCHANGED <<pc, started, dimTask, weatherFetch, weatherTransform,
                   pageFetch, pageTransform, weatherGate, pageGate, summary>>
    /\ UNCHANGED storeVars

\* refresh_materialized_view returns {"status": "success"} or, on any
\* exception, {"status": "failed"}; only a timeout ends the attempt failed.
RefreshEnd(v) ==
    /\ v \in DOMAIN refresh
    /\ refresh[v].state = "running"
    /\ \E outcome \in {"success", "failed", "timeout"} :
         refresh' = [refresh EXCEPT ![v] =
             IF outcome = "timeout" THEN FailAttempt(@, RefreshRetries)
             ELSE CompleteAttempt(@, outcome)]
    /\ UNCHANGED <<pc, started, dimTask, weatherFetch, weatherTransform,
                   pageFetch, pageTransform, weatherGate, pageGate, summary>>
    /\ UNCHANGED storeVars

FinalStateFromTasks(futures) ==
    IF AllCompleted(futures) THEN "success" ELSE "failed"

\* The final state of a flow run whose function returned a plain dictionary:
\* completed, whatever the states of the task runs it submitted.
FlowFinalState(futures) == "success"

\* The flow function has returned its summary; the run ends when the task
\* runs it submitted are final.
FlowRunEnd ==
    /\ pc = "returned"
    /\ AllFinal(refresh)
    /\ pc' = FlowFinalState(refresh)
    /\ UNCHANGED <<started, dimTask, weatherFetch, weatherTransform, pageFetch,
                   pageTransform, weatherGate, pageGate, refresh, summary>>
    /\ UNCHANGED storeVars

Next ==
    \/ DimensionStart
    \/ DimensionEnd
    \/ FanOutWeather
    \/ \E i \in 1..(MaxFanout + 1) : FetchWeatherStart(i)
    \/ \E i \in 1..(MaxFanout + 1) : FetchWeatherEnd(i)
    \/ WeatherTransformStart
    \/ WeatherTransformEnd
    \/ FanOutPages
    \/ \E i \in 1..(MaxFanout + 1) : FetchPageStart(i)
    \/ \E i \in 1..(MaxFanout + 1) : FetchPageEnd(i)
    \/ PageTransformStart
    \/ PageTransformEnd
    \/ WeatherCheckpointStart
    \/ WeatherCheckpointEnd
    \/ PageCheckpointStart
    \/ PageCheckpointEnd
    \/ RefreshMap
    \/ \E v \in 1..Len(ViewNames) : RefreshStart(v)
    \/ \E v \in 1..Len(ViewNames) : RefreshEnd(v)
    \/ FlowRunEnd

(***************************************************************************)
(*                              The store                                  *)
(***************************************************************************)
\* Largest number of handler calls (seed loads, raw inserts, transforms)
\* made against the store.
MaxCalls == 4
\* Largest number of rows of a raw table.
MaxRawRows == 2
\* Largest number of handler calls when the weather handlers are the ones
\* called: a seed load and two rounds of raw insert and transform.
MaxWeatherCalls == 5

\* Page titles, numbered in their collation order (ORDER BY page_title).
Titles == 1..2
\* Page languages in collation order.
Languages == <<"de", "en">>
LanguageOrder(lang) == CHOOSE i \in DOMAIN Languages : Languages[i] = lang
\* pageid values of the content API.
PageIds == {101}
RevisionIds == {"r1", "r2"}
\* Location identities (name, latitude, longitude), numbered in the order
\* of ORDER BY location_name, latitude, longitude.
LocationNames == 1..3

NoCall == [op |-> "none", clean |-> TRUE]

StoreInit ==
    /\ now = 1
    /\ location = {}
    /\ wikipedia_page = {}
    /\ page_id_seq = 1
    /\ raw_weather = <<>>
    /\ raw_wikipedia = <<>>
    /\ weather = {}
    /\ revision = {}
    /\ txn = <<>>
    /\ last = NoCall

\* What the next call records about the call before it.
Previous == [op |-> last.op, clean |-> last.clean]

RawRefOfNextRow(rec) == rec.id + 1

\* raw_ref, the lineage reference a transform writes with a fact: the id of
\* the raw row the fact is read from.
RawRef(rec) == rec.id

ReplaceLatestRaw(table, row) ==
    IF table = <<>> THEN <<row>>
    ELSE [table EXCEPT ![Len(table)] = [row EXCEPT !.id = Len(table)]]

\* INSERT INTO raw.<table> ... RETURNING id, committed: the row is added
\* after the rows the table holds.
InsertRaw(table, row) == Append(table, row)

\* The rows of a sequence-valued table.
Rows(table) == {table[i] : i \in DOMAIN table}

(***************************************************************************)
(* seed_loader.ensure_location_dimension                                   *)
(***************************************************************************)
\* seed_data.yaml: the locations and wikipedia_pages lists. `err` tells what
\* processing the entry meets: "none", "python" (an error raised before the
\* statement reaches the store, such as a missing key) or "store" (the
\* statement raises in the store, which aborts the transaction).
SeedFiles ==
    { [locations |-> <<[name |-> 2, region |-> "MA", err |-> "none"]>>,
       wikipedia_pages |-> <<[title |-> 1, language |-> "en", err |-> "none"]>>],
      [locations |-> <<[name |-> 1, region |-> "New England", err |-> "none"],
                       [name |-> 2, region |-> "NY", err |-> "none"],
                       [name |-> 3, region |-> "WA", err |-> "none"]>>,
       wikipedia_pages |-> <<[title |-> 1, language |-> "en", err |-> "none"],
                             [title |-> 2, language |-> "de", err |-> "none"]>>],
      [locations |-> <<[name |-> 1, region |-> "MA", err |-> "none"],
                       [name |-> 2, region |-> "NY", err |-> "store"],
                       [name |-> 3, region |-> "WA", err |-> "python"]>>,
       wikipedia_pages |-> <<[title |-> 2, language |-> "en", err |-> "python"],
                             [title |-> 1, language |-> "en", err |-> "none"]>>] }

InsertLocationAlways(rows, loc) ==
    rows \cup {[location_id |-> Cardinality(rows) + 1,
                location_name |-> loc.name,
                region |-> loc.region]}

\* INSERT INTO core.location ... ON CONFLICT (location_name, latitude,
\* longitude) DO UPDATE: the surrogate id of an existing row is kept.
UpsertLocation(rows, loc) ==
    IF \E r \in rows : r.location_name = loc.name
    THEN {IF r.location_name = loc.name THEN [r EXCEPT !.region = loc.region] ELSE r
          : r \in rows}
    ELSE rows \cup {[location_id |-> Cardinality(rows) + 1,
                     location_name |-> loc.name,
                     region |-> loc.region]}

\* The loop over the seed locations, from entry i on. st: the rows as the
\* open transaction sees them, whether the transaction is aborted, and the
\* counters.
RECURSIVE SeedLocations(_, _, _)
SeedLocations(st, locs, i) ==
    IF i > Len(locs) THEN st
    ELSE LET loc == locs[i]
             st1 == IF st.aborted \/ loc.err = "python" THEN st
                    ELSE IF loc.err = "store" THEN [st EXCEPT !.aborted = TRUE]
                    ELSE [st EXCEPT !.location = UpsertLocation(st.location, loc),
                                    !.locations_inserted = @ + 1,
                                    !.locations_processed = @ + 1]
         IN SeedLocations(st1, locs, i + 1)

\* SELECT MIN(wikipedia_page_id) ... WHERE wikipedia_page_id < 0, then
\* next_id = min_id - 1 (min_id is -1 when there is none).
Min(S) == CHOOSE x \in S : \A y \in S : x <= y

FirstNegativeId(rows) == -2

NextNegativeId(rows) ==
    LET neg == {r.wikipedia_page_id : r \in {q \in rows : q.wikipedia_page_id < 0}}
    IN (IF neg = {} THEN -1 ELSE Min(neg)) - 1

NewPageRow(pid, ext_id, title, lang, clock) ==
    [page_id |-> pid, wikipedia_page_id |-> ext_id, page_title |-> title,
     page_language |-> lang, valid_from |-> clock, valid_to |-> NULL,
     is_current |-> TRUE]

\* The loop over the seed pages, from entry i on.
RECURSIVE SeedPages(_, _, _, _)
SeedPages(st, pages, i, clock) ==
    IF i > Len(pages) THEN st
    ELSE LET page == pages[i]
             existing == {r \in st.wikipedia_page :
                            /\ r.page_title = page.title
                            /\ r.page_language = page.language
                            /\ r.is_current}
             st1 == IF st.aborted \/ page.err = "python" THEN st
                    ELSE IF page.err = "store" THEN [st EXCEPT !.aborted = TRUE]
                    ELSE IF existing = {}
                    THEN [st EXCEPT
                            !.wikipedia_page = @ \cup
                                {NewPageRow(st.seq, st.next_id, page.title,
                                            page.language, clock)},
                            !.seq = @ + 1,
                            !.next_id = @ - 1,
                            !.pages_inserted = @ + 1,
                            !.pages_processed = @ + 1]
                    ELSE [st EXCEPT !.pages_processed = @ + 1]
         IN SeedPages(st1, pages, i + 1, clock)

\* One call of ensure_location_dimension on the seed file: both loops in one
\* transaction, the commit at the end. A statement after the transaction
\* aborted raises; in the loops that is caught, at the SELECT MIN between
\* them it leaves the function. The commit of an aborted transaction rolls
\* back.
SeedLoad(seed) ==
    LET st0 == [location |-> location, wikipedia_page |-> wikipedia_page,
                aborted |-> FALSE, seq |-> page_id_seq, next_id |-> 0,
                locations_processed |-> 0, locations_inserted |-> 0,
                pages_processed |-> 0, pages_inserted |-> 0]
        st1 == SeedLocations(st0, seed.locations, 1)
        st2 == SeedPages([st1 EXCEPT !.next_id = NextNegativeId(st1.wikipedia_page)],
                         seed.wikipedia_pages, 1, now)
    IN IF st1.aborted
       THEN [raised |-> TRUE, location |-> location, wikipedia_page |-> wikipedia_page,
             seq |-> page_id_seq,
             result |-> [locations_processed |-> 0, locations_inserted |-> 0,
                         pages_processed |-> 0, pages_inserted |-> 0]]
       ELSE [raised |-> FALSE,
             location |-> IF st2.aborted THEN location ELSE st2.location,
             wikipedia_page |-> IF st2.aborted THEN wikipedia_page ELSE st2.wikipedia_page,
             seq |-> st2.seq,
             result |-> [locations_processed |-> st2.locations_processed,
                         locations_inserted |-> st2.locations_inserted,
                         pages_processed |-> st2.pages_processed,
                         pages_inserted |-> st2.pages_inserted]]

EnsureLocationDimension ==
    /\ now <= MaxCalls
    /\ \E seed \in SeedFiles :
         LET out == SeedLoad(seed)
         IN /\ location' = out.location
            /\ wikipedia_page' = out.wikipedia_page
            /\ page_id_seq' = out.seq
            /\ last' = [op |-> "ensure_location_dimension", clean |-> ~out.raised,
                        prev |-> Previous, seed |-> seed, raised |-> out.raised,
                        result |-> out.result,
                        before |-> [location |-> location,
                                    wikipedia_page |-> wikipedia_page]]
    /\ now' = now + 1
    /\ UNCHANGED <<raw_weather, raw_wikipedia, weather, revision, txn>>
    /\ UNCHANGED flowVars

(***************************************************************************)
(* extract.store_wikipedia_raw                                             *)
(***************************************************************************)
\* The summary the content API returns: the page's metadata, or an object
\* without them.
EmptySummary == [empty |-> TRUE, pageid |-> 0, title |-> 0, revision |-> ""]
Summaries ==
    {[empty |-> FALSE, pageid |-> p, title |-> t, revision |-> r] :
        p \in PageIds, t \in Titles, r \in RevisionIds} \cup {EmptySummary}

\* The row store_wikipedia_raw inserts for `page` and `summary_data`:
\* page_id defaults to 0, the title to the requested one, the revision id to
\* "" when the summary does not carry them; payload is the summary itself.
RawPageRow(id, page, summary_data, clock) ==
    [id |-> id,
     page_id |-> IF summary_data.empty THEN 0 ELSE summary_data.pageid,
     page_title |-> IF summary_data.empty THEN page.page_title ELSE summary_data.title,
     revision_id |-> IF summary_data.empty THEN "" ELSE summary_data.revision,
     page_language |-> page.page_language,
     payload |-> summary_data,
     ingested_at |-> clock]

StoreWikipediaRaw ==
    /\ now <= MaxCalls
    /\ Len(raw_wikipedia) < MaxRawRows
    /\ \E t \in Titles, l \in DOMAIN Languages, summary_data \in Summaries :
         LET page == [page_title |-> t, page_language |-> Languages[l]]
             row == RawPageRow(Len(raw_wikipedia) + 1, page, summary_data, now)
         IN \/ /\ raw_wikipedia' = InsertRaw(raw_wikipedia, row)
               /\ last' = [op |-> "store_wikipedia_raw", clean |-> TRUE,
                           prev |-> Previous, row |-> row]
            \* the connection or the statement raises: nothing is committed
            \/ /\ raw_wikipedia' = raw_wikipedia
               /\ last' = [op |-> "store_wikipedia_raw", clean |-> FALSE,
                           prev |-> Previous]
    /\ now' = now + 1
    /\ UNCHANGED <<location, wikipedia_page, page_id_seq, raw_weather, weather,
                   revision, txn>>
    /\ UNCHANGED flowVars

(***************************************************************************)
(* transform.transform_wikipedia_to_fact                                   *)
(***************************************************************************)
\* SELECT DISTINCT ON (page_title, page_language) ... ORDER BY page_title,
\* page_language, ingested_at DESC: per (title, language) the row ingested
\* last.
LatestPages(raw) ==
    {r \in Rows(raw) :
        \A q \in Rows(raw) :
            (q.page_title = r.page_title /\ q.page_language = r.page_language)
                => q.ingested_at <= r.ingested_at}

PageSortKey(r) == <<r.page_title, LanguageOrder(r.page_language)>>
KeyBefore(a, b) == a[1] < b[1] \/ (a[1] = b[1] /\ a[2] <= b[2])

\* The selected rows in the order the query returns them.
RECURSIVE PagesInOrder(_)
PagesInOrder(S) ==
    IF S = {} THEN <<>>
    ELSE LET first == CHOOSE r \in S :
                         \A q \in S : KeyBefore(PageSortKey(r), PageSortKey(q))
         IN <<first>> \o PagesInOrder(S \ {first})

\* What processing one page may meet: no error, or an error raised by the
\* fact insert, after the statements on the dimension. (An error raised by
\* an earlier statement is rolled back the same way.)
PageErrors == {"none", "fact"}

CloseSkipped(rows, pid, clock) == rows

CloseRowsOfExternalId(rows, pid, clock) ==
    {IF \E q \in rows : q.page_id = pid /\ q.wikipedia_page_id = r.wikipedia_page_id
     THEN [r EXCEPT !.valid_to = Some(clock), !.is_current = FALSE] ELSE r
     : r \in rows}

\* UPDATE core.wikipedia_page SET valid_to = now, is_current = false
\* WHERE page_id = pid.
ClosePageRow(rows, pid, clock) ==
    {IF r.page_id = pid THEN [r EXCEPT !.valid_to = Some(clock), !.is_current = FALSE] ELSE r
     : r \in rows}

ScdStepOverwrites(rows, seq, ext_id, title, lang, clock) ==
    LET existing == {r \in rows : /\ r.wikipedia_page_id = ext_id
                                  /\ r.page_language = lang
                                  /\ r.is_current}
    IN IF existing # {}
       THEN LET existing_page == CHOOSE r \in existing : TRUE
            IN [rows |-> {IF r = existing_page THEN [r EXCEPT !.page_title = title]
                          ELSE r : r \in rows},
                current_page_id |-> existing_page.page_id, seq |-> seq]
       ELSE [rows |-> rows \cup {NewPageRow(seq, ext_id, title, lang, clock)},
             current_page_id |-> seq, seq |-> seq + 1]

\* The type-2 step for one payload on the rows the transaction sees:
\* the rows after it, the surrogate id the fact uses, and the next serial.
ScdStep(rows, seq, ext_id, title, lang, clock) ==
    LET existing == {r \in rows : /\ r.wikipedia_page_id = ext_id
                                  /\ r.page_language = lang
                                  /\ r.is_current}
    IN IF existing # {}
       THEN LET existing_page == CHOOSE r \in existing : TRUE
            IN IF existing_page.page_title # title
               THEN [rows |-> ClosePageRow(rows, existing_page.page_id, clock)
                                \cup {NewPageRow(seq, ext_id, title, lang, clock)},
                     current_page_id |-> seq, seq |-> seq + 1]
               ELSE [rows |-> rows, current_page_id |-> existing_page.page_id,
                     seq |-> seq]
       ELSE [rows |-> rows \cup {NewPageRow(seq, ext_id, title, lang, clock)},
             current_page_id |-> seq, seq |-> seq + 1]

InsertRevisionAlways(rows, pid, rev_id, raw_id) ==
    rows \cup {[page_id |-> pid, revision_id |-> rev_id, raw_id |-> raw_id]}

\* INSERT INTO core.revision ... ON CONFLICT (page_id, revision_id) DO NOTHING.
InsertRevision(rows, pid, rev_id, raw_id) ==
    IF \E r \in rows : r.page_id = pid /\ r.revision_id = rev_id
    THEN rows
    ELSE rows \cup {[page_id |-> pid, revision_id |-> rev_id, raw_id |-> raw_id]}

RollbackPageSkipped(committed, working) == working

\* conn.rollback() in the except block of the loop: the connection sees
\* the committed rows again.
RollbackPage(committed, working) == committed

\* One iteration of the loop: the page's statements, then commit, or
\* rollback in the except block. st.committed is what the store holds,
\* st.working what the connection's open transaction sees.
ProcessPage(st, rec, err, clock) ==
    IF rec.payload.empty THEN st
    ELSE LET step == ScdStep(st.working.wikipedia_page, st.seq, rec.page_id,
                             rec.page_title, rec.page_language, clock)
             revs == InsertRevision(st.working.revision, step.current_page_id,
                                    rec.revision_id, RawRef(rec))
             done == [wikipedia_page |-> step.rows, revision |-> revs]
         IN IF err = "fact"
            THEN [st EXCEPT
                    !.working = RollbackPage(st.committed,
                                    [wikipedia_page |-> step.rows,
                                     revision |-> st.working.revision]),
                    !.seq = step.seq]
            ELSE [st EXCEPT
                    !.working = done,
                    !.committed = done,
                    !.seq = step.seq,
                    !.revisions_inserted =
                        @ + Cardinality(revs) - Cardinality(st.working.revision),
                    !.pages_processed = @ + 1]

RECURSIVE ProcessPages(_, _, _, _, _)
ProcessPages(st, recs, errs, i, clock) ==
    IF i > Len(recs) THEN st
    ELSE ProcessPages(ProcessPage(st, recs[i], errs[i], clock), recs, errs, i + 1, clock)

\* One call of transform_wikipedia_to_fact.
WikipediaTransform(errs) ==
    LET recs == PagesInOrder(LatestPages(raw_wikipedia))
        db == [wikipedia_page |-> wikipedia_page, revision |-> revision]
        st0 == [committed |-> db, working |-> db, seq |-> page_id_seq,
                pages_processed |-> 0, revisions_inserted |-> 0]
    IN ProcessPages(st0, recs, errs, 1, now)

TransformWikipediaToFact ==
    /\ now <= MaxCalls
    /\ LET recs == PagesInOrder(LatestPages(raw_wikipedia))
       IN \E errs \in [DOMAIN recs -> PageErrors] :
            LET out == WikipediaTransform(errs)
            IN /\ wikipedia_page' = out.committed.wikipedia_page
               /\ revision' = out.committed.revision
               /\ page_id_seq' = out.seq
               /\ last' = [op |-> "transform_wikipedia_to_fact",
                           clean |-> \A i \in DOMAIN errs : errs[i] = "none",
                           prev |-> Previous, selected |-> recs, errs |-> errs,
                           before |-> [wikipedia_page |-> wikipedia_page,
                                       revision |-> revision,
                                       raw_wikipedia |-> raw_wikipedia],
                           result |-> [pages_processed |-> out.pages_processed,
                                       revisions_inserted |-> out.revisions_inserted]]
    /\ now' = now + 1
    /\ UNCHANGED <<location, raw_weather, raw_wikipedia, weather, txn>>
    /\ UNCHANGED flowVars

WikiNext ==
    \/ EnsureLocationDimension
    \/ StoreWikipediaRaw
    \/ TransformWikipediaToFact

(***************************************************************************)
(* transform.transform_wikipedia_to_fact, overlapping executions           *)
(***************************************************************************)
\* Number of executions of the transform that overlap.
MaxExecutions == 2

\* An execution that has not yet issued a statement for its page.
IdleTxn == [pc |-> "select", existing |-> NULL, close |-> 0, insert |-> NULL,
            current_page_id |-> 0]

\* Each execution has read the one raw row of the page and processes it on
\* a connection of its own; a statement sees the rows committed before it
\* (read committed, the default of the connection) and the connection's
\* own writes. The dimension holds no row of the page or one current row.
OverlapInit ==
    /\ FlowInit
    /\ now = 2 /\ location = {} /\ raw_weather = <<>> /\ weather = {} /\ revision = {}
    /\ last = NoCall
    /\ \E t \in Titles, summary_data \in Summaries \ {EmptySummary} :
          raw_wikipedia = <<RawPageRow(1, [page_title |-> t, page_language |-> "en"],
                                       summary_data, 1)>>
    /\ \/ wikipedia_page = {} /\ page_id_seq = 1
       \/ /\ \E p \in PageIds, t \in Titles :
                wikipedia_page = {NewPageRow(1, p, t, "en", 1)}
          /\ page_id_seq = 2
    /\ txn = [e \in 1..MaxExecutions |-> IdleTxn]

\* SELECT page_id, page_title, is_current ... WHERE wikipedia_page_id = %s
\* AND page_language = %s AND is_current = true, then fetchone().
TxnSelect(e) ==
    /\ txn[e].pc = "select"
    /\ LET rec == raw_wikipedia[1]
           found == {r \in wikipedia_page : /\ r.wikipedia_page_id = rec.page_id
                                            /\ r.page_language = rec.page_language
                                            /\ r.is_current}
       IN \/ /\ found = {}
             /\ txn' = [txn EXCEPT ![e].pc = "write"]
          \/ \E r \in found :
                txn' = [txn EXCEPT ![e].pc = "write", ![e].existing = Some(r)]
    /\ UNCHANGED <<now, location, wikipedia_page, page_id_seq, raw_weather,
                   raw_wikipedia, weather, revision, last>>
    /\ UNCHANGED flowVars

\* The statements that follow the SELECT, in the open transaction: the
\* UPDATE that closes the row found and the INSERT of the new current row,
\* or the INSERT alone, or neither. The INSERT draws the surrogate id from
\* the serial at once; the UPDATE waits while another open transaction has
\* updated the same row.
TxnWrite(e) ==
    /\ txn[e].pc = "write"
    /\ LET rec == raw_wikipedia[1]
           row == NewPageRow(page_id_seq, rec.page_id, rec.page_title,
                             rec.page_language, now)
       IN IF txn[e].existing = NULL
          THEN /\ txn' = [txn EXCEPT ![e].pc = "commit", ![e].insert = Some(row),
                                     ![e].current_page_id = page_id_seq]
               /\ page_id_seq' = page_id_seq + 1
          ELSE IF txn[e].existing[1].page_title # rec.page_title
          THEN /\ \A o \in DOMAIN txn :
                     ~(txn[o].pc = "commit" /\ txn[o].close = txn[e].existing[1].page_id)
               /\ txn' = [txn EXCEPT ![e].pc = "commit",
                                     ![e].close = txn[e].existing[1].page_id,
                                     ![e].insert = Some(row),
                                     ![e].current_page_id = page_id_seq]
               /\ page_id_seq' = page_id_seq + 1
          ELSE /\ txn' = [txn EXCEPT ![e].pc = "commit",
                                     ![e].current_page_id = txn[e].existing[1].page_id]
               /\ page_id_seq' = page_id_seq
    /\ UNCHANGED <<now, location, wikipedia_page, raw_weather, raw_wikipedia,
                   weather, revision, last>>
    /\ UNCHANGED flowVars

\* The INSERT of the revision fact and conn.commit(): the transaction's
\* writes become the committed rows.
TxnCommit(e) ==
    /\ txn[e].pc = "commit"
    /\ LET rec == raw_wikipedia[1]
           closed == IF txn[e].close # 0
                     THEN ClosePageRow(wikipedia_page, txn[e].close, now)
                     ELSE wikipedia_page
       IN /\ wikipedia_page' = closed \cup {txn[e].insert[i] : i \in DOMAIN txn[e].insert}
          /\ revision' = InsertRevision(revision, txn[e].current_page_id,
                                        rec.revision_id, RawRef(rec))
    /\ txn' = [txn EXCEPT ![e].pc = "done"]
    /\ UNCHANGED <<now, location, page_id_seq, raw_weather, raw_wikipedia,
                   weather, last>>
    /\ UNCHANGED flowVars

OverlapNext ==
    \E e \in 1..MaxExecutions : TxnSelect(e) \/ TxnWrite(e) \/ TxnCommit(e)

OverlapSpec == OverlapInit /\ [][OverlapNext]_vars

(***************************************************************************)
(* extract.store_weather_raw                                               *)
(***************************************************************************)
\* An entry of hourly.time is the ISO-8601 text of a timestamp, Some(t), or
\* a text that datetime.fromisoformat rejects.
BadTime == <<>>

\* Payloads of the forecast API as the transform reads them. kind "object"
\* is a JSON object, "other" a JSON value on which payload.get raises;
\* hourly tells whether the hourly key is present and not empty. The arrays
\* are aligned by index; timestamps are numbered in time order, wind speed
\* is in km/h (multiples of 18, so that the conversion is exact in tenths).
\* relativehumidity_2m, precipitation and cloudcover are read exactly as
\* temperature_2m is and are left out.
WeatherPayloads ==
    { [kind |-> "object", hourly |-> TRUE, time |-> <<Some(1), Some(2)>>,
       temperature_2m |-> <<Some(15), Some(14)>>,
       windspeed_10m |-> <<Some(36), Some(18)>>],
      [kind |-> "object", hourly |-> TRUE, time |-> <<Some(2), Some(3)>>,
       temperature_2m |-> <<Some(500)>>, windspeed_10m |-> <<NULL, Some(72)>>],
      [kind |-> "object", hourly |-> TRUE, time |-> <<Some(1), BadTime, Some(3)>>,
       temperature_2m |-> <<Some(10), Some(11), Some(12)>>,
       windspeed_10m |-> <<Some(18), Some(18), Some(18)>>],
      [kind |-> "object", hourly |-> FALSE, time |-> <<>>,
       temperature_2m |-> <<>>, windspeed_10m |-> <<>>],
      [kind |-> "other", hourly |-> FALSE, time |-> <<>>,
       temperature_2m |-> <<>>, windspeed_10m |-> <<>>] }

RawWeatherRow(id, loc, api_data, clock) ==
    [id |-> id, location_name |-> loc, payload |-> api_data, ingested_at |-> clock]

StoreWeatherRaw ==
    /\ now <= MaxWeatherCalls
    /\ Len(raw_weather) < MaxRawRows
    /\ \E loc \in LocationNames, api_data \in WeatherPayloads :
         LET row == RawWeatherRow(Len(raw_weather) + 1, loc, api_data, now)
         IN \/ /\ raw_weather' = InsertRaw(raw_weather, row)
               /\ last' = [op |-> "store_weather_raw", clean |-> TRUE,
                           prev |-> Previous, row |-> row]
            \* the connection or the statement raises: nothing is committed
            \/ /\ raw_weather' = raw_weather
               /\ last' = [op |-> "store_weather_raw", clean |-> FALSE,
                           prev |-> Previous]
    /\ now' = now + 1
    /\ UNCHANGED <<location, wikipedia_page, page_id_seq, raw_wikipedia, weather,
                   revision, txn>>
    /\ UNCHANGED flowVars

(***************************************************************************)
(* transform.transform_weather_to_fact                                     *)
(***************************************************************************)
EarliestWeather(raw) ==
    {r \in Rows(raw) :
        \A q \in Rows(raw) :
            q.location_name = r.location_name => r.ingested_at <= q.ingested_at}

LatestWeatherOverall(raw) ==
    {r \in Rows(raw) : \A q \in Rows(raw) : q.ingested_at <= r.ingested_at}

\* SELECT DISTINCT ON (location_name, latitude, longitude) ... ORDER BY
\* location_name, latitude, longitude, ingested_at DESC.
LatestWeather(raw) ==
    {r \in Rows(raw) :
        \A q \in Rows(raw) :
            q.location_name = r.location_name => q.ingested_at <= r.ingested_at}

RECURSIVE WeatherInOrder(_)
WeatherInOrder(S) ==
    IF S = {} THEN <<>>
    ELSE LET first == CHOOSE r \in S : \A q \in S : r.location_name <= q.location_name
         IN <<first>> \o WeatherInOrder(S \ {first})

ValueAtOrZero(arr, i) == IF i <= Len(arr) /\ arr[i] # NULL THEN arr[i] ELSE Some(0)

\* temps[i] if i < len(temps) and temps[i] is not None else None
ValueAt(arr, i) == IF i <= Len(arr) /\ arr[i] # NULL THEN arr[i] ELSE NULL

\* wind_kmh / 3.6, in tenths of m/s.
WindMps(wind_kmh) == IF wind_kmh # NULL THEN Some((wind_kmh[1] * 100) \div 36) ELSE NULL

InsertWeatherOnce(rows, loc_id, observed_at, temp, wind_mps, raw_id, clock) ==
    IF \E r \in rows : r.location_id = loc_id /\ r.observed_at = observed_at
    THEN rows
    ELSE rows \cup {[location_id |-> loc_id, observed_at |-> observed_at,
                     temperature_celsius |-> temp, wind_speed_mps |-> wind_mps,
                     raw_id |-> raw_id, created_at |-> clock]}

\* INSERT INTO core.weather ... ON CONFLICT (location_id, observed_at) DO
\* UPDATE: the measured values and raw_ref are overwritten, created_at is not.
UpsertWeather(rows, loc_id, observed_at, temp, wind_mps, raw_id, clock) ==
    IF \E r \in rows : r.location_id = loc_id /\ r.observed_at = observed_at
    THEN {IF r.location_id = loc_id /\ r.observed_at = observed_at
          THEN [r EXCEPT !.temperature_celsius = temp, !.wind_speed_mps = wind_mps,
                         !.raw_id = raw_id]
          ELSE r : r \in rows}
    ELSE rows \cup {[location_id |-> loc_id, observed_at |-> observed_at,
                     temperature_celsius |-> temp, wind_speed_mps |-> wind_mps,
                     raw_id |-> raw_id, created_at |-> clock]}

\* The inner except block: conn.rollback() gives up what the open
\* transaction wrote.
RollbackRows(committed, working) == committed

ExplodeFirstRowOnly(committed, working, loc_id, rec, i, count, clock) ==
    [rows |-> UpsertWeather(working, loc_id, rec.payload.time[i][1],
                            ValueAt(rec.payload.temperature_2m, i),
                            WindMps(ValueAt(rec.payload.windspeed_10m, i)),
                            rec.id, clock),
     rows_inserted |-> count + 1]

\* The loop over the indexes of hourly.time from i on: each row is upserted
\* in the open transaction; a row that raises rolls the transaction back and
\* ends the loop.
RECURSIVE ExplodeRows(_, _, _, _, _, _, _)
ExplodeRows(committed, working, loc_id, rec, i, count, clock) ==
    LET hourly == rec.payload
    IN IF i > Len(hourly.time)
       THEN [rows |-> working, rows_inserted |-> count]
       ELSE IF hourly.time[i] = BadTime
       THEN [rows |-> RollbackRows(committed, working), rows_inserted |-> count]
       ELSE ExplodeRows(committed,
                        UpsertWeather(working, loc_id, hourly.time[i][1],
                                      ValueAt(hourly.temperature_2m, i),
                                      WindMps(ValueAt(hourly.windspeed_10m, i)),
                                      RawRef(rec), clock),
                        loc_id, rec, i + 1, count + 1, clock)

CommitSkipped(st, rows) == [st EXCEPT !.working = rows]

\* conn.commit() after the loop over a location's rows.
CommitLocation(st, rows) == [st EXCEPT !.working = rows, !.committed = rows]

ProcessLocationFabricates(st, rec, dim, clock) ==
    LET found == {l \in dim : l.location_name = rec.location_name}
        loc_id == IF found = {} THEN 0 ELSE (CHOOSE l \in found : TRUE).location_id
    IN IF rec.payload.kind # "object"
       THEN [st EXCEPT !.working = st.committed, !.upserts = Append(@, 0)]
       ELSE IF ~rec.payload.hourly \/ Len(rec.payload.time) = 0
       THEN [st EXCEPT !.upserts = Append(@, 0)]
       ELSE LET out == ExplodeRows(st.committed, st.working, loc_id, rec, 1, 0, clock)
            IN [CommitLocation(st, out.rows) EXCEPT
                  !.rows_inserted = @ + out.rows_inserted,
                  !.locations_processed = @ + 1,
                  !.upserts = Append(@, out.rows_inserted)]

\* One iteration of the loop over the selected raw rows. st.upserts lists,
\* per selected row, the upsert statements executed for it.
ProcessLocation(st, rec, dim, clock) ==
    LET found == {l \in dim : l.location_name = rec.location_name}
    IN IF rec.payload.kind # "object"
       THEN [st EXCEPT !.working = st.committed, !.upserts = Append(@, 0)]
       ELSE IF ~rec.payload.hourly \/ found = {} \/ Len(rec.payload.time) = 0
       THEN [st EXCEPT !.upserts = Append(@, 0)]
       ELSE LET loc_id == (CHOOSE l \in found : TRUE).location_id
                out == ExplodeRows(st.committed, st.working, loc_id, rec, 1, 0, clock)
            IN [CommitLocation(st, out.rows) EXCEPT
                  !.rows_inserted = @ + out.rows_inserted,
                  !.locations_processed = @ + 1,
                  !.upserts = Append(@, out.rows_inserted)]

RECURSIVE ProcessLocations(_, _, _, _, _)
ProcessLocations(st, recs, i, dim, clock) ==
    IF i > Len(recs) THEN st
    ELSE ProcessLocations(ProcessLocation(st, recs[i], dim, clock), recs, i + 1, dim, clock)

\* One call of transform_weather_to_fact: what is committed when the
\* connection is closed, and the summary.
WeatherTransformOn(raw, facts, dim, clock) ==
    LET recs == WeatherInOrder(LatestWeather(raw))
        st0 == [committed |-> facts, working |-> facts,
                rows_inserted |-> 0, locations_processed |-> 0, upserts |-> <<>>]
    IN ProcessLocations(st0, recs, 1, dim, clock)

WeatherTransform == WeatherTransformOn(raw_weather, weather, location, now)

TransformWeatherToFact ==
    /\ now <= MaxWeatherCalls
    /\ LET out == WeatherTransform
       IN /\ weather' = out.committed
          /\ last' = [op |-> "transform_weather_to_fact", clean |-> TRUE,
                      prev |-> Previous,
                      selected |-> WeatherInOrder(LatestWeather(raw_weather)),
                      before |-> [weather |-> weather, location |-> location],
                      upserts |-> out.upserts,
                      result |-> [locations_processed |-> out.locations_processed,
                                  rows_inserted |-> out.rows_inserted]]
    /\ now' = now + 1
    /\ UNCHANGED <<location, wikipedia_page, page_id_seq, raw_weather,
                   raw_wikipedia, revision, txn>>
    /\ UNCHANGED flowVars

WeatherNext ==
    \/ EnsureLocationDimension
    \/ StoreWeatherRaw
    \/ TransformWeatherToFact

(***************************************************************************)
(* data_quality: the weather suite and run_weather_checkpoint              *)
(***************************************************************************)
\* Largest number of rows of core.weather in the window a checkpoint reads.
MaxWindowRows == 20

\* The measured values of a window: each row carries, per column, a value
\* inside every range of the suite, the outlier 500, or null.
WindowValue == [inside |-> 20, outlier |-> 500]

\* A column of a window of n rows: how many rows carry the outlier and how
\* many carry null; the others carry the inside value.
ColumnCounts(n) ==
    {c \in [outside : 0..n, null : 0..n] : c.outside + c.null <= n}
FewOutliers(n) == {c \in ColumnCounts(n) : c.null = 0 /\ c.outside <= 2}
Windows ==
    UNION {{[rows |-> n, temperature |-> t, humidity |-> h, wind_speed |-> w] :
              t \in ColumnCounts(n), h \in FewOutliers(n), w \in FewOutliers(n)}
           : n \in 0..MaxWindowRows}

\* The parameters of the three range expectations; mostly = 0.95, in percent.
TemperatureMin == -50
TemperatureMax == 60
HumidityMin == 0
HumidityMax == 100
WindSpeedMin == 0
WindSpeedMax == 200
Mostly == 95

Between(v, min_value, max_value) == min_value <= v /\ v <= max_value

ExpectMostlyOfRows(col, rows, min_value, max_value, mostly) ==
    LET unexpected ==
            (IF Between(WindowValue.inside, min_value, max_value)
             THEN 0 ELSE rows - col.outside - col.null)
            + (IF Between(WindowValue.outlier, min_value, max_value)
               THEN 0 ELSE col.outside)
    IN 100 * (rows - unexpected) >= mostly * rows

\* expect_column_values_to_be_between(column, min_value, max_value, mostly)
\* on a column of a window: null values are left out; the expectation
\* succeeds when the fraction of the other values that lie in the range is
\* at least mostly, and when there is no other value.
ExpectColumnValuesToBeBetween(col, rows, min_value, max_value, mostly) ==
    LET nonnull == rows - col.null
        unexpected ==
            (IF Between(WindowValue.inside, min_value, max_value)
             THEN 0 ELSE rows - col.outside - col.null)
            + (IF Between(WindowValue.outlier, min_value, max_value)
               THEN 0 ELSE col.outside)
    IN IF nonnull > 0
       THEN 100 * (nonnull - unexpected) >= mostly * nonnull
       ELSE TRUE

\* The expectations of weather_fact_suite that depend on the values of the
\* window, each with its outcome.
WeatherSuiteChecks(window) ==
    [temperature |-> ExpectColumnValuesToBeBetween(window.temperature, window.rows,
                        TemperatureMin, TemperatureMax, Mostly),
     humidity |-> ExpectColumnValuesToBeBetween(window.humidity, window.rows,
                        HumidityMin, HumidityMax, Mostly),
     wind_speed |-> ExpectColumnValuesToBeBetween(window.wind_speed, window.rows,
                        WindSpeedMin, WindSpeedMax, Mostly),
     row_count |-> window.rows >= 1]

\* result.success of the checkpoint: every expectation succeeded.
WeatherSuiteSuccess(window) ==
    LET checks == WeatherSuiteChecks(window)
    IN checks.temperature /\ checks.humidity /\ checks.wind_speed /\ checks.row_count

\* run_weather_checkpoint on a window, and what the gate task makes of the
\* dictionary it returns.
RunWeatherCheckpoint ==
    /\ last.op = "window"
    /\ last' = [op |-> "run_weather_checkpoint", clean |-> TRUE,
                window |-> last.window,
                checks |-> WeatherSuiteChecks(last.window),
                result |-> CheckpointResult(WeatherSuiteSuccess(last.window)),
                outcome |-> CheckpointTaskOutcome(
                                CheckpointResult(WeatherSuiteSuccess(last.window)))]
    /\ UNCHANGED <<now, location, wikipedia_page, page_id_seq, raw_weather,
                   raw_wikipedia, weather, revision, txn>>
    /\ UNCHANGED flowVars

\* The checkpoint, run once on each window.
SuiteInit ==
    /\ FlowInit
    /\ now = 1 /\ location = {} /\ wikipedia_page = {} /\ page_id_seq = 1
    /\ raw_weather = <<>> /\ raw_wikipedia = <<>> /\ weather = {} /\ revision = {}
    /\ txn = <<>>
    /\ \E w \in Windows : last = [op |-> "window", clean |-> TRUE, window |-> w]

SuiteNext == RunWeatherCheckpoint

SuiteSpec == SuiteInit /\ [][SuiteNext]_vars

(***************************************************************************)
(* data_quality.run_weather_checkpoint: the batch it reads                 *)
(***************************************************************************)
\* The LIMIT of the default batch query, 1000 in the source, scaled to the
\* size of the fact tables explored here.
WindowLimit == 1

\* SELECT * FROM core.weather ORDER BY created_at DESC LIMIT n: the rows
\* that may be in the batch, those with fewer than n rows created after
\* them (which of several rows created at the same instant are returned is
\* left to the store).
WeatherBatch(rows, n) ==
    {w \in rows : Cardinality({q \in rows : q.created_at > w.created_at}) < n}

\* Payloads of one hourly entry: the hour and its temperature.
HourlyPayloads ==
    {[kind |-> "object", hourly |-> TRUE, time |-> <<Some(h)>>,
      temperature_2m |-> <<Some(t)>>, windspeed_10m |-> <<Some(18)>>] :
        h \in 1..3, t \in {WindowValue.inside, WindowValue.outlier}}

\* The store when the third run of the pipeline reaches its weather
\* transform: one seeded location, whose payload was fetched and stored in
\* each run, and the facts the transforms of the first two runs committed.
WindowInit ==
    /\ FlowInit
    /\ now = 5
    /\ location = UpsertLocation({}, [name |-> 2, region |-> "MA"])
    /\ wikipedia_page = {} /\ page_id_seq = 1 /\ raw_wikipedia = <<>>
    /\ revision = {} /\ txn = <<>>
    /\ \E p1, p2, p3 \in HourlyPayloads :
          LET r1 == RawWeatherRow(1, 2, p1, 1)
              r2 == RawWeatherRow(2, 2, p2, 3)
              r3 == RawWeatherRow(3, 2, p3, 4)
              run1 == WeatherTransformOn(<<r1>>, {}, location, 2).committed
              run2 == WeatherTransformOn(<<r1, r2>>, run1, location, 4).committed
          IN /\ raw_weather = <<r1, r2, r3>>
             /\ weather = run2
             /\ last = [op |-> "store_weather_raw", clean |-> TRUE,
                        prev |-> [op |-> "transform_weather_to_fact", clean |-> TRUE],
                        row |-> r3]

WindowNext == TransformWeatherToFact

WindowSpec == WindowInit /\ [][WindowNext]_vars

(***************************************************************************)
(* fetch_raw_weather and fetch_raw_wikipedia_page, statement by statement  *)
(***************************************************************************)
FetchKinds == {"weather", "page"}

FetchTask(kind) == IF kind = "weather" THEN weatherFetch[1] ELSE pageFetch[1]

FetchRetries(kind) == IF kind = "weather" THEN WeatherFetchRetries ELSE PageFetchRetries

\* The responses of the two APIs, the same at every attempt.
WeatherResponse == CHOOSE p \in WeatherPayloads : p.kind = "object" /\ ~p.hourly
PageResponse == CHOOSE s \in Summaries : ~s.empty

\* A run in which each fetch was mapped over one item: both task runs are
\* pending, the raw tables are empty and no connection is open.
FetchInit ==
    /\ pc = "step5"
    /\ started = <<"dimension", "weather_fetch", "page_fetch">>
    /\ dimTask = CompleteAttempt(StartAttempt(PendingTask), "success")
    /\ weatherFetch = MapTasks(1)
    /\ pageFetch = MapTasks(1)
    /\ weatherTransform = PendingTask
    /\ pageTransform = PendingTask
    /\ weatherGate = NoTask
    /\ pageGate = NoTask
    /\ refresh = <<>>
    /\ summary = NoSummary
    /\ now = 1
    /\ location = {} /\ wikipedia_page = {} /\ page_id_seq = 1
    /\ raw_weather = <<>> /\ raw_wikipedia = <<>>
    /\ weather = {} /\ revision = {}
    /\ txn = [k \in FetchKinds |-> "idle"]
    /\ last = NoCall

\* The task run of `kind` becomes t and its attempt moves to position p.
FetchMove(kind, t, p) ==
    /\ weatherFetch' = IF kind = "weather" THEN <<t>> ELSE weatherFetch
    /\ pageFetch' = IF kind = "page" THEN <<t>> ELSE pageFetch
    /\ txn' = [txn EXCEPT ![kind] = p]
    /\ UNCHANGED <<pc, started, dimTask, weatherTransform, pageTransform,
                   weatherGate, pageGate, refresh, summary>>
    /\ UNCHANGED <<location, wikipedia_page, page_id_seq, weather, revision, last>>

\* The except block logs and raises again: the attempt fails.
FetchRaises(kind) ==
    FetchMove(kind, FailAttempt(FetchTask(kind), FetchRetries(kind)), "idle")

\* The engine starts an attempt of the task run.
FetchAttemptStart(kind) ==
    /\ Startable(FetchTask(kind))
    /\ FetchMove(kind, StartAttempt(FetchTask(kind)), "api")
    /\ UNCHANGED <<now, raw_weather, raw_wikipedia>>

\* fetch_weather_from_api / fetch_wikipedia_from_api: the response, or
\* requests raises.
FetchFromApi(kind) ==
    /\ txn[kind] = "api"
    /\ \/ FetchMove(kind, FetchTask(kind), "insert")
       \/ FetchRaises(kind)
    /\ UNCHANGED <<now, raw_weather, raw_wikipedia>>

\* store_*_raw up to fetchone(): the connection is opened and the INSERT
\* executed in its transaction, or one of them raises.
FetchStoreInsert(kind) ==
    /\ txn[kind] = "insert"
    /\ \/ FetchMove(kind, FetchTask(kind), "commit")
       \/ FetchRaises(kind)
    /\ UNCHANGED <<now, raw_weather, raw_wikipedia>>

\* conn.commit(): the row is in the raw table.
FetchStoreCommit(kind) ==
    /\ txn[kind] = "commit"
    /\ FetchMove(kind, FetchTask(kind), "close")
    /\ raw_weather' =
         IF kind = "weather"
         THEN InsertRaw(raw_weather,
                        RawWeatherRow(Len(raw_weather) + 1, 1, WeatherResponse, now))
         ELSE raw_weather
    /\ raw_wikipedia' =
         IF kind = "page"
         THEN InsertRaw(raw_wikipedia,
                        RawPageRow(Len(raw_wikipedia) + 1,
                                   [page_title |-> 1, page_language |-> "en"],
                                   PageResponse, now))
         ELSE raw_wikipedia
    /\ now' = now + 1

\* cursor.close(), conn.close(), the log line and the return of the
\* dictionary: the attempt completes, or close() raises.
FetchReturn(kind) ==
    /\ txn[kind] = "close"
    /\ \/ FetchMove(kind, CompleteAttempt(FetchTask(kind), "success"), "idle")
       \/ FetchRaises(kind)
    /\ UNCHANGED <<now, raw_weather, raw_wikipedia>>

\* timeout_seconds=120 elapses while the attempt runs: the engine interrupts
\* the function where it stands and the attempt fails; an open transaction
\* is not committed.
FetchTimeout(kind) ==
    /\ txn[kind] # "idle"
    /\ FetchRaises(kind)
    /\ UNCHANGED <<now, raw_weather, raw_wikipedia>>

FetchNext ==
    \E kind \in FetchKinds :
        \/ FetchAttemptStart(kind)
        \/ FetchFromApi(kind)
        \/ FetchStoreInsert(kind)
        \/ FetchStoreCommit(kind)
        \/ FetchReturn(kind)
        \/ FetchTimeout(kind)

FetchSpec == FetchInit /\ [][FetchNext]_vars

Init == FlowInit /\ StoreInit

Spec == Init /\ [][Next]_vars

\* Every task attempt ends and the engine schedules what is ready.
FairSpec == Init /\ [][Next]_vars /\ WF_vars(Next)

\* Step 2 with more locations than the run of Spec fans out to: the flow is
\* at the call of the weather transform, which waits for the mapped runs;
\* the task runner (ConcurrentTaskRunner, no limit given) starts every
\* submitted run as soon as it is scheduled.
FanOutLocations == 4

FanOutInit ==
    /\ pc = "step3"
    /\ started = <<"dimension_upsert", "weather_fetch">>
    /\ dimTask = CompleteAttempt(StartAttempt(PendingTask), "success")
    /\ weatherFetch = MapTasks(FanOutLocations)
    /\ weatherTransform = PendingTask
    /\ pageFetch = <<>>
    /\ pageTransform = NoTask
    /\ weatherGate = NoTask
    /\ pageGate = NoTask
    /\ refresh = <<>>
    /\ summary = NoSummary
    /\ StoreInit

FanOutNext ==
    \/ \E i \in 1..FanOutLocations : FetchWeatherStart(i)
    \/ \E i \in 1..FanOutLocations : FetchWeatherEnd(i)

FanOutSpec == FanOutInit /\ [][FanOutNext]_vars

\* Largest number of handler calls when the handlers of both sources are
\* called against one store.
MaxStoreCalls == 3

\* Every handler of the store, one call at a time.
StoreNext ==
    /\ now <= MaxStoreCalls
    /\ \/ EnsureLocationDimension
       \/ StoreWeatherRaw
       \/ TransformWeatherToFact
       \/ StoreWikipediaRaw
       \/ TransformWikipediaToFact

StoreSpec == Init /\ [][StoreNext]_vars

\* Seed loads, raw page inserts and revision transforms, one at a time.
WikiSpec == Init /\ [][WikiNext]_vars

\* Seed loads, raw weather inserts and weather transforms, one at a time.
WeatherSpec == Init /\ [][WeatherNext]_vars

(***************************************************************************)
(*                      Properties of the flow                             *)
(***************************************************************************)
Terminal == pc \in {"success", "failed"}

\* A checkpoint whose validation result had success = false.
GateReportedFailure == weatherGate.result = "fail" \/ pageGate.result = "fail"

\* A refresh task run exists / has begun an attempt.
RefreshStarted == \E v \in DOMAIN refresh : refresh[v].attempts > 0

\* C1: in every run, once the weather checkpoint or the Wikipedia checkpoint
\* has reported success = false, no refresh_materialized_view task run is
\* submitted or started, the flow has failed and no summary was returned.
C1_GateFailureBlocksRefresh ==
    GateReportedFailure =>
        /\ refresh = <<>>
        /\ ~RefreshStarted
        /\ pc = "failed"
        /\ summary = NoSummary

\* C1 happens: the weather checkpoint passed, the Wikipedia checkpoint
\* reported success = false, and the run is failed.
C1_Witness ==
    /\ weatherGate.result = "pass"
    /\ pageGate.result = "fail"
    /\ pc = "failed"

\* C28: once the dimension-upsert task run is failed, which takes a failure
\* of each of its three attempts, the run is failed and stays so, only the
\* dimension stage has started, and no fetch, transform, checkpoint or
\* refresh task run exists.
C28_DimensionFailureStopsRun ==
    dimTask.state = "failed" =>
        /\ dimTask.attempts = DimensionRetries + 1
        /\ pc = "failed"
        /\ started = <<"dimension_upsert">>
        /\ weatherFetch = <<>> /\ pageFetch = <<>> /\ refresh = <<>>
        /\ weatherTransform = NoTask /\ pageTransform = NoTask
        /\ weatherGate = NoTask /\ pageGate = NoTask
        /\ summary = NoSummary

\* C28 happens: the dimension task failed three times.
C28_Witness ==
    /\ dimTask.state = "failed"
    /\ dimTask.attempts = 3
    /\ pc = "failed"

IsPrefix(s, t) == Len(s) <= Len(t) /\ \A i \in DOMAIN s : s[i] = t[i]

C6_TransformStartsAfterFailedFetch ==
    Terminal =>
        /\ (\E i \in DOMAIN weatherFetch : weatherFetch[i].state = "failed")
               => weatherTransform.attempts > 0
        /\ (\E i \in DOMAIN pageFetch : pageFetch[i].state = "failed")
               => pageTransform.attempts > 0

\* C7: every run eventually stays in exactly one of the two terminal
\* outcomes: success with the summary returned, or failed without one.
C7_RunTerminates ==
    <>[](\/ pc = "success" /\ summary.pipeline_status = "success"
         \/ pc = "failed" /\ summary = NoSummary)

\* C7 happens: the dimension task used all its attempts and the run failed.
C7_Witness ==
    /\ pc = "failed"
    /\ dimTask.state = "failed"
    /\ dimTask.attempts = DimensionRetries + 1

C12_RetryDelayIncreases ==
    /\ \A i \in DOMAIN weatherFetch :
         (weatherFetch[i].state = "awaiting_retry" /\ weatherFetch[i].attempts >= 2)
            => RetryDelay(WeatherFetchRetryDelay, weatherFetch[i].attempts)
                 > RetryDelay(WeatherFetchRetryDelay, weatherFetch[i].attempts - 1)
    /\ \A i \in DOMAIN pageFetch :
         (pageFetch[i].state = "awaiting_retry" /\ pageFetch[i].attempts >= 2)
            => RetryDelay(PageFetchRetryDelay, pageFetch[i].attempts)
                 > RetryDelay(PageFetchRetryDelay, pageFetch[i].attempts - 1)

\* The mapped fetch_raw_weather runs that execute now.
RunningFetches == {i \in DOMAIN weatherFetch : weatherFetch[i].state = "running"}

\* C13 (as the specification states it): at every moment at most 3
\* fetch_raw_weather task runs execute at the same time, whatever the
\* number of locations.
C13_AtMostThreeConcurrentFetches == Cardinality(RunningFetches) <= 3

\* The refresh of view v failed: an attempt returned the failed status, or
\* the task run ended failed (its attempts timed out).
RefreshFailed(v) == refresh[v].result = "failed" \/ refresh[v].state = "failed"

\* C14: after the gate has passed, when the refresh of one view has failed
\* the run has not failed (it has returned its success summary and ends in
\* success), and the refresh of the other view has been attempted or can
\* still start.
C14_RefreshFailureIsolated ==
    \A v \in DOMAIN refresh :
        RefreshFailed(v) =>
            /\ pc \in {"returned", "success"}
            /\ summary.pipeline_status = "success"
            /\ AllFinal(refresh) => (pc = "success" \/ ENABLED FlowRunEnd)
            /\ \A w \in DOMAIN refresh \ {v} :
                 refresh[w].attempts > 0 \/ ENABLED RefreshStart(w)

\* C14 happens: the refresh of the first view timed out on every attempt,
\* the second view was refreshed, and the run ended in success.
C14_Witness ==
    /\ pc = "success"
    /\ refresh[1].state = "failed"
    /\ refresh[2].result = "success"

\* C15 (as the specification states it): the summary of a run that ended
\* reports the refresh failures: views_refreshed is the number of views
\* whose refresh ended with the status success.
C15_SummaryCountsSuccessfulRefreshes ==
    pc = "success" =>
        summary.views_refreshed =
            Cardinality({v \in DOMAIN refresh : refresh[v].result = "success"})

(***************************************************************************)
(*                  Properties of the page dimension                       *)
(***************************************************************************)
\* The rows of the dimension for one (external page id, language).
PageRows(rows, ext_id, lang) ==
    {r \in rows : r.wikipedia_page_id = ext_id /\ r.page_language = lang}

\* Every (external id, language) that has a row has exactly one current row.
OneCurrentPerKey(rows) ==
    \A r \in rows :
        Cardinality({q \in PageRows(rows, r.wikipedia_page_id, r.page_language) :
                        q.is_current}) = 1

\* C3: after any sequence of seed-loader calls and revision-transform calls
\* made one at a time, every committed state of the page dimension has
\* exactly one row with is_current = true for each (external page id,
\* language) that has a row.
C3_ExactlyOneCurrentRow == OneCurrentPerKey(wikipedia_page)

\* C3 happens: a revision transform closed the current row of a page that
\* a seed load had also entered the dimension, and opened a new one.
C3_Witness ==
    /\ last.op = "transform_wikipedia_to_fact"
    /\ \E r \in wikipedia_page : r.wikipedia_page_id < 0
    /\ \E r, q \in wikipedia_page :
         /\ r.wikipedia_page_id = q.wikipedia_page_id
         /\ r.wikipedia_page_id > 0
         /\ r.page_language = q.page_language
         /\ r.is_current /\ ~q.is_current

\* The second of two runs (fetch-and-store, then the revision transform)
\* for the page (ext_id, lang) has just ended: the raw table holds the row
\* of the first run with title `old` and the row of the second with title
\* `new`, the second was stored right before this transform, and the
\* dimension before it held what the first run left, one current row with
\* the old title.
SecondRunEnded(ext_id, lang, old, new) ==
    /\ last.op = "transform_wikipedia_to_fact"
    /\ last.clean
    /\ last.prev.op = "store_wikipedia_raw" /\ last.prev.clean
    /\ Len(raw_wikipedia) = 2
    /\ \A i \in 1..2 : /\ ~raw_wikipedia[i].payload.empty
                       /\ raw_wikipedia[i].page_id = ext_id
                       /\ raw_wikipedia[i].page_language = lang
    /\ raw_wikipedia[1].page_title = old
    /\ raw_wikipedia[2].page_title = new
    /\ old # new
    /\ \E r \in last.before.wikipedia_page :
         /\ last.before.wikipedia_page = {r}
         /\ r.wikipedia_page_id = ext_id /\ r.page_language = lang
         /\ r.page_title = old /\ r.is_current

\* C4 (as the specification states it): for every pair of old and new
\* titles, after the second run the dimension holds exactly two rows for the
\* external id: one closed with valid_to set, one current with valid_to
\* null and the new title; their titles differ.
C4_TitleChangeLeavesTwoRows ==
    \A ext_id \in PageIds, l \in DOMAIN Languages, old \in Titles, new \in Titles :
        SecondRunEnded(ext_id, Languages[l], old, new) =>
            LET rows == {r \in wikipedia_page : r.wikipedia_page_id = ext_id}
            IN /\ Cardinality(rows) = 2
               /\ \E closed, current \in rows :
                    /\ ~closed.is_current /\ closed.valid_to # NULL
                    /\ current.is_current /\ current.valid_to = NULL
                    /\ current.page_title = new
                    /\ closed.page_title # current.page_title

\* C5 (as the specification states it): a clean revision transform that
\* follows a clean revision transform, with no raw row stored in between,
\* adds no revision fact row and leaves exactly one current dimension row
\* per (external page id, language).
C5_RevisionTransformIdempotent ==
    (/\ last.op = "transform_wikipedia_to_fact" /\ last.clean
     /\ last.prev.op = "transform_wikipedia_to_fact" /\ last.prev.clean)
        => /\ revision = last.before.revision
           /\ OneCurrentPerKey(wikipedia_page)

\* C16: in every reachable state a revision fact exists at most once per
\* (surrogate page id, revision id); a revision transform removes or changes
\* no revision row (an insert of a key already present is a no-op), and the
\* revisions_inserted of its summary is the number of rows the call added.
C16_RevisionInsertOnce ==
    /\ \A r, q \in revision :
         (r.page_id = q.page_id /\ r.revision_id = q.revision_id) => r = q
    /\ last.op = "transform_wikipedia_to_fact" =>
         /\ last.before.revision \subseteq revision
         /\ last.result.revisions_inserted =
              Cardinality(revision) - Cardinality(last.before.revision)

\* C16 happens: the transform processed a raw row whose (page, revision)
\* was already a fact written from an earlier raw row; the fact is unchanged
\* and nothing was counted.
C16_Witness ==
    /\ last.op = "transform_wikipedia_to_fact"
    /\ last.result.pages_processed = 1
    /\ last.result.revisions_inserted = 0
    /\ \E i \in DOMAIN last.selected : \E r \in last.before.revision :
         /\ ~last.selected[i].payload.empty
         /\ r.revision_id = last.selected[i].revision_id
         /\ r.raw_id # last.selected[i].id
         /\ r \in revision
         /\ \E p \in wikipedia_page :
              /\ p.page_id = r.page_id /\ p.is_current
              /\ p.wikipedia_page_id = last.selected[i].page_id
              /\ p.page_language = last.selected[i].page_language

\* The dimension rows of the page of raw row rec, and the facts of a set of
\* dimension rows.
RowsOfPage(rows, rec) ==
    {r \in rows : /\ r.wikipedia_page_id = rec.page_id
                  /\ r.page_language = rec.page_language}
FactsOf(facts, rows) == {f \in facts : \E r \in rows : r.page_id = f.page_id}

\* C29: after a revision transform in which some pages met an error,
\* (1) every page processed without error, before or after a failed one,
\* has its dimension row and its revision fact in the store, and they are
\* the pages counted in pages_processed; (2) a failed page whose external id
\* no successful page of the call shares leaves its dimension rows and their
\* facts exactly as they were; (3) every row the call closed has a current
\* row of the same page; (4) every dimension row the call added has a fact.
C29_PageErrorRollsBackOnlyThatPage ==
    last.op = "transform_wikipedia_to_fact" =>
        LET recs == last.selected
            Done(i) == last.errs[i] = "none" /\ ~recs[i].payload.empty
            old == last.before.wikipedia_page
        IN /\ \A i \in DOMAIN recs :
                Done(i) =>
                    \E d \in RowsOfPage(wikipedia_page, recs[i]) :
                        /\ d.page_title = recs[i].page_title
                        /\ \E f \in revision : /\ f.page_id = d.page_id
                                               /\ f.revision_id = recs[i].revision_id
           /\ last.result.pages_processed = Cardinality({i \in DOMAIN recs : Done(i)})
           /\ \A i \in DOMAIN recs :
                (/\ ~Done(i)
                 /\ \A j \in DOMAIN recs :
                        Done(j) => \/ recs[j].page_id # recs[i].page_id
                                   \/ recs[j].page_language # recs[i].page_language)
                    => /\ RowsOfPage(wikipedia_page, recs[i]) = RowsOfPage(old, recs[i])
                       /\ FactsOf(revision, RowsOfPage(old, recs[i]))
                            = FactsOf(last.before.revision, RowsOfPage(old, recs[i]))
           /\ \A r \in old :
                (r.is_current /\ r \notin wikipedia_page) =>
                    \E c \in wikipedia_page : /\ c.is_current
                                              /\ c.wikipedia_page_id = r.wikipedia_page_id
                                              /\ c.page_language = r.page_language
           /\ \A d \in wikipedia_page :
                (\A r \in old : r.page_id # d.page_id) =>
                    \E f \in revision : f.page_id = d.page_id

\* C29 happens: of two pages, the first met an error after its title change
\* had closed the current row and inserted a new one; the change is gone,
\* and the second page was processed.
C29_Witness ==
    /\ last.op = "transform_wikipedia_to_fact"
    /\ Len(last.selected) = 2
    /\ last.errs = <<"fact", "none">>
    /\ \E r \in RowsOfPage(last.before.wikipedia_page, last.selected[1]) :
            r.is_current /\ r.page_title # last.selected[1].page_title
    /\ wikipedia_page = last.before.wikipedia_page
    /\ last.result.pages_processed = 1

\* C31: on every reachable dimension and for every payload (external id,
\* title, language), the type-2 step (1) with no current row adds exactly
\* one row, current with valid_to null, and changes nothing else; (2) with
\* a current row of the same title writes nothing and hands that row's
\* surrogate id to the fact; (3) with a current row of another title closes
\* that row and adds exactly one current row with the same external id and
\* a surrogate id no row had. And a transform call in which every page met
\* an error commits no part of a step, while each row a call closed has its
\* replacement committed with it.
C31_ThreeWayScdStep ==
    /\ \A ext_id \in PageIds, title \in Titles, l \in DOMAIN Languages :
          LET lang == Languages[l]
              step == ScdStep(wikipedia_page, page_id_seq, ext_id, title, lang, now)
              cur == {r \in PageRows(wikipedia_page, ext_id, lang) : r.is_current}
              added == step.rows \ wikipedia_page
              fresh == {r \in added : \A q \in wikipedia_page : q.page_id # r.page_id}
          IN /\ cur = {} =>
                   /\ wikipedia_page \subseteq step.rows
                   /\ Cardinality(added) = 1
                   /\ \A r \in added : /\ r.is_current /\ r.valid_to = NULL
                                       /\ r.wikipedia_page_id = ext_id
                                       /\ r.page_title = title
                                       /\ r.page_id = step.current_page_id
             /\ \A c \in cur :
                   c.page_title = title =>
                       step.rows = wikipedia_page /\ step.current_page_id = c.page_id
             /\ \A c \in cur :
                   c.page_title # title =>
                       /\ [c EXCEPT !.is_current = FALSE, !.valid_to = Some(now)]
                             \in step.rows
                       /\ c \notin step.rows
                       /\ wikipedia_page \ {c} \subseteq step.rows
                       /\ Cardinality(fresh) = 1
                       /\ Cardinality(added) = 2
                       /\ \A r \in fresh : /\ r.is_current /\ r.valid_to = NULL
                                           /\ r.wikipedia_page_id = ext_id
                                           /\ r.page_language = lang
                                           /\ r.page_title = title
                                           /\ r.page_id = step.current_page_id
    /\ last.op = "transform_wikipedia_to_fact" =>
          /\ (\A i \in DOMAIN last.errs : last.errs[i] = "fact") =>
                wikipedia_page = last.before.wikipedia_page
          /\ \A c \in last.before.wikipedia_page :
                (c.is_current /\ c \notin wikipedia_page) =>
                    \E r \in wikipedia_page \ last.before.wikipedia_page :
                        /\ r.wikipedia_page_id = c.wikipedia_page_id
                        /\ r.page_language = c.page_language
                        /\ r.page_title # c.page_title
                        /\ \A q \in last.before.wikipedia_page : q.page_id # r.page_id

\* C31 happens: a transform closed the current row of a page whose title
\* had changed and committed the new current row with it.
C31_Witness ==
    /\ last.op = "transform_wikipedia_to_fact" /\ last.clean
    /\ \E c \in last.before.wikipedia_page :
          /\ c.is_current /\ c.wikipedia_page_id > 0
          /\ [c EXCEPT !.is_current = FALSE, !.valid_to = Some(now - 1)] \in wikipedia_page
          /\ \E r \in wikipedia_page :
                /\ r.is_current /\ r.wikipedia_page_id = c.wikipedia_page_id
                /\ r.page_title # c.page_title /\ r.valid_from = now - 1

\* The raw rows whose payload carries the external id, in language lang.
RawRowsOfPage(ext_id, lang) ==
    {r \in Rows(raw_wikipedia) : /\ ~r.payload.empty
                                 /\ r.page_id = ext_id
                                 /\ r.page_language = lang}

\* C34 (as the specification states it): after a revision transform that
\* met no per-page error, for every external page id and language with a
\* raw payload, the current dimension row carries the title of the raw
\* payload of that page that was ingested last.
C34_CurrentTitleIsLatestRawTitle ==
    (last.op = "transform_wikipedia_to_fact" /\ last.clean) =>
        \A ext_id \in PageIds, l \in DOMAIN Languages :
            \A newest \in RawRowsOfPage(ext_id, Languages[l]) :
                (\A q \in RawRowsOfPage(ext_id, Languages[l]) :
                        q.ingested_at <= newest.ingested_at)
                    => \A c \in PageRows(wikipedia_page, ext_id, Languages[l]) :
                          c.is_current => c.page_title = newest.page_title

\* C35 (as the specification states it): a revision transform that
\* directly follows a revision transform, neither meeting a per-page error
\* and no raw row stored in between, closes no dimension row and inserts
\* none: the dimension is as it was, with as many rows per external page id.
C35_RerunLeavesDimensionUnchanged ==
    (/\ last.op = "transform_wikipedia_to_fact" /\ last.clean
     /\ last.prev.op = "transform_wikipedia_to_fact" /\ last.prev.clean)
        => /\ wikipedia_page = last.before.wikipedia_page
           /\ \A ext_id \in PageIds :
                 Cardinality({r \in wikipedia_page : r.wikipedia_page_id = ext_id})
                    = Cardinality({r \in last.before.wikipedia_page :
                                      r.wikipedia_page_id = ext_id})

\* C36 (as the specification states it): in every state seed loads and
\* revision transforms leave, the list of current pages that step 4 maps
\* the fetch task over holds each (title, language) at most once.
C36_PageListHasNoDuplicates ==
    \A r, q \in CurrentPageRows(wikipedia_page) :
        (r.page_title = q.page_title /\ r.page_language = q.page_language) => r = q

\* C37 (as the specification states it): whatever way the statements of
\* overlapping executions of the revision transform interleave, the
\* committed dimension never holds two rows with is_current = true for one
\* (external page id, language).
C37_OverlapKeepsOneCurrentRow ==
    \A r, q \in wikipedia_page :
        (/\ r.is_current /\ q.is_current
         /\ r.wikipedia_page_id = q.wikipedia_page_id
         /\ r.page_language = q.page_language) => r = q

(***************************************************************************)
(*                  Properties of the weather transform                    *)
(***************************************************************************)
\* The location the dimension resolves the raw row to, if any.
ResolvedLocations(rec) == {l \in location : l.location_name = rec.location_name}

\* The payload is an object with a non-empty hourly.time.
HasHourly(rec) ==
    rec.payload.kind = "object" /\ rec.payload.hourly /\ Len(rec.payload.time) > 0

BadEntries(rec) == {i \in DOMAIN rec.payload.time : rec.payload.time[i] = BadTime}

\* Malformed: the hourly key is missing or empty, or processing the payload
\* raises.
Malformed(rec) == ~HasHourly(rec) \/ BadEntries(rec) # {}

\* The fact row of entry i of rec's payload is in the fact table, written
\* from this raw row.
EntryWritten(rec, i) ==
    \E l \in ResolvedLocations(rec), w \in weather :
        /\ w.location_id = l.location_id
        /\ w.observed_at = rec.payload.time[i][1]
        /\ w.temperature_celsius = ValueAt(rec.payload.temperature_2m, i)
        /\ w.raw_id = rec.id

\* C9: in one call of the weather transform in which the latest payload of a
\* location is malformed, the fact rows of every other selected location
\* (well-formed payload, location in the dimension) are written and
\* committed, whether it was processed before or after the bad one.
C9_OtherLocationsCommitted ==
    last.op = "transform_weather_to_fact" =>
        \A b \in DOMAIN last.selected :
            Malformed(last.selected[b]) =>
                \A g \in DOMAIN last.selected :
                    LET rec == last.selected[g]
                    IN (g # b /\ ~Malformed(rec) /\ ResolvedLocations(rec) # {})
                          => \A i \in DOMAIN rec.payload.time : EntryWritten(rec, i)

\* C9 happens: a well-formed location was processed first, then a location
\* whose payload has an entry that raises (the rollback), both in the
\* dimension.
C9_Witness ==
    /\ last.op = "transform_weather_to_fact"
    /\ Len(last.selected) = 2
    /\ ~Malformed(last.selected[1]) /\ ResolvedLocations(last.selected[1]) # {}
    /\ BadEntries(last.selected[2]) # {} /\ ResolvedLocations(last.selected[2]) # {}
    /\ \A i \in DOMAIN last.selected[1].payload.time : EntryWritten(last.selected[1], i)

\* C10 (as the specification states it): when one entry of a location's
\* hourly payload is malformed, the transform skips that entry only: the
\* entries before and after it are upserted and committed.
C10_OnlyBadEntrySkipped ==
    last.op = "transform_weather_to_fact" =>
        \A g \in DOMAIN last.selected :
            LET rec == last.selected[g]
            IN (HasHourly(rec) /\ ResolvedLocations(rec) # {}
                    /\ Cardinality(BadEntries(rec)) = 1)
                  => \A i \in DOMAIN rec.payload.time \ BadEntries(rec) :
                        EntryWritten(rec, i)

\* The fact rows with the key of entry i of rec's payload.
RowsOfEntry(rows, rec, i) ==
    {w \in rows : /\ \E l \in ResolvedLocations(rec) : w.location_id = l.location_id
                  /\ w.observed_at = rec.payload.time[i][1]}

\* C17: after any sequence of weather transforms there is at most one fact
\* row per (location id, observed-at); and after a transform, the row of
\* every entry of a selected well-formed payload carries the temperature,
\* the wind speed and the lineage reference of that payload, whether the
\* key was new or already present (last write wins, no row is added).
C17_WeatherUpsertLastWriteWins ==
    /\ \A r, q \in weather :
         (r.location_id = q.location_id /\ r.observed_at = q.observed_at) => r = q
    /\ last.op = "transform_weather_to_fact" =>
         \A g \in DOMAIN last.selected :
            LET rec == last.selected[g]
            IN (~Malformed(rec) /\ ResolvedLocations(rec) # {}) =>
                 \A i \in DOMAIN rec.payload.time :
                    /\ Cardinality(RowsOfEntry(weather, rec, i)) = 1
                    /\ \A w \in RowsOfEntry(weather, rec, i) :
                         /\ w.temperature_celsius = ValueAt(rec.payload.temperature_2m, i)
                         /\ w.wind_speed_mps = WindMps(ValueAt(rec.payload.windspeed_10m, i))
                         /\ w.raw_id = rec.id

\* C17 happens: the transform met a key that an earlier transform had
\* written from an older payload with another temperature, and overwrote it.
C17_Witness ==
    /\ last.op = "transform_weather_to_fact"
    /\ \E g \in DOMAIN last.selected :
         LET rec == last.selected[g]
         IN /\ ~Malformed(rec)
            /\ \E i \in DOMAIN rec.payload.time :
                 /\ \E old \in RowsOfEntry(last.before.weather, rec, i) :
                      /\ old.raw_id # rec.id
                      /\ old.temperature_celsius # ValueAt(rec.payload.temperature_2m, i)
                 /\ \E w \in RowsOfEntry(weather, rec, i) :
                      /\ w.raw_id = rec.id
                      /\ w.temperature_celsius = ValueAt(rec.payload.temperature_2m, i)
            /\ Cardinality(weather) = Cardinality(last.before.weather) + 1

\* The committed fact rows whose lineage reference names the raw row rec.
RowsFromRaw(rows, rec) == {w \in rows : w.raw_id = rec.id}

\* C18: for a selected payload whose time array has N well-formed entries
\* and whose location resolves, the transform executes exactly N upserts,
\* one per index, and no more than N fact rows are committed for the
\* payload; when the location lookup fails none is executed or committed.
C18_ArrayExplosion ==
    last.op = "transform_weather_to_fact" =>
        \A g \in DOMAIN last.selected :
            LET rec == last.selected[g]
                N == Len(rec.payload.time)
            IN /\ (~Malformed(rec) /\ ResolvedLocations(rec) # {}) =>
                    /\ last.upserts[g] = N
                    /\ \A i \in 1..N : RowsOfEntry(RowsFromRaw(weather, rec), rec, i) # {}
                    /\ Cardinality(RowsFromRaw(weather, rec)) <= N
               /\ (~Malformed(rec) /\ ResolvedLocations(rec) = {}) =>
                    /\ last.upserts[g] = 0
                    /\ RowsFromRaw(weather, rec) = {}

\* C18 happens: one call exploded a two-entry payload of a location of the
\* dimension into two rows and skipped a payload whose location is unknown.
C18_Witness ==
    /\ last.op = "transform_weather_to_fact"
    /\ \E g, h \in DOMAIN last.selected :
         /\ ~Malformed(last.selected[g]) /\ ResolvedLocations(last.selected[g]) # {}
         /\ last.upserts[g] = 2
         /\ Cardinality(RowsFromRaw(weather, last.selected[g])) = 2
         /\ ~Malformed(last.selected[h]) /\ ResolvedLocations(last.selected[h]) = {}
         /\ last.upserts[h] = 0

\* Entry i of a value array is missing (the array is shorter) or null.
MissingAt(arr, i) == i > Len(arr) \/ arr[i] = NULL

\* C19: a missing or null entry at index i of a value array (the array may
\* be shorter than the time array) is no row error: the row of timestamp i
\* is upserted with that field null, a null wind speed stays null, and no
\* row of the payload is skipped.
C19_MissingValuesAreNullFacts ==
    last.op = "transform_weather_to_fact" =>
        \A g \in DOMAIN last.selected :
            LET rec == last.selected[g]
            IN (~Malformed(rec) /\ ResolvedLocations(rec) # {}) =>
                 /\ last.upserts[g] = Len(rec.payload.time)
                 /\ \A i \in DOMAIN rec.payload.time :
                      \E w \in RowsOfEntry(RowsFromRaw(weather, rec), rec, i) :
                         /\ MissingAt(rec.payload.temperature_2m, i)
                               => w.temperature_celsius = NULL
                         /\ MissingAt(rec.payload.windspeed_10m, i)
                               => w.wind_speed_mps = NULL

\* C19 happens: a payload with a null wind speed at one index and a
\* temperature array one entry short was transformed; both rows exist, with
\* the null fields null and the present ones kept (72 km/h is 20.0 m/s).
C19_Witness ==
    /\ last.op = "transform_weather_to_fact"
    /\ \E g \in DOMAIN last.selected :
         LET rec == last.selected[g]
         IN /\ ~Malformed(rec)
            /\ Len(rec.payload.temperature_2m) < Len(rec.payload.time)
            /\ \E i \in DOMAIN rec.payload.windspeed_10m : rec.payload.windspeed_10m[i] = NULL
            /\ \E w1, w2 \in RowsFromRaw(weather, rec) :
                 /\ w1.wind_speed_mps = NULL /\ w1.temperature_celsius = Some(500)
                 /\ w2.temperature_celsius = NULL /\ w2.wind_speed_mps = Some(200)

\* C20: when the location of a selected raw row has no row in the location
\* dimension, the transform executes no upsert and commits no fact row for
\* it, every fact row the call wrote belongs to a selected row whose
\* location resolves, the location dimension is as it was, and the
\* locations after it are still processed.
C20_UnknownLocationSkipped ==
    last.op = "transform_weather_to_fact" =>
        /\ location = last.before.location
        /\ \A w \in weather \ last.before.weather :
             \E h \in DOMAIN last.selected :
                /\ ResolvedLocations(last.selected[h]) # {}
                /\ w.raw_id = last.selected[h].id
        /\ \A g \in DOMAIN last.selected :
             ResolvedLocations(last.selected[g]) = {} =>
                /\ last.upserts[g] = 0
                /\ RowsFromRaw(weather, last.selected[g]) = {}
                /\ \A h \in DOMAIN last.selected :
                     (h > g /\ ~Malformed(last.selected[h])
                            /\ ResolvedLocations(last.selected[h]) # {})
                        => \A i \in DOMAIN last.selected[h].payload.time :
                              RowsOfEntry(RowsFromRaw(weather, last.selected[h]),
                                          last.selected[h], i) # {}

\* C20 happens: the first selected row, with a well-formed payload, names a
\* location the dimension lacks; the next one resolves and was written.
C20_Witness ==
    /\ last.op = "transform_weather_to_fact"
    /\ Len(last.selected) = 2
    /\ HasHourly(last.selected[1])
    /\ ResolvedLocations(last.selected[1]) = {}
    /\ location # {}
    /\ ~Malformed(last.selected[2])
    /\ RowsFromRaw(weather, last.selected[2]) # {}
    /\ RowsFromRaw(weather, last.selected[1]) = {}

\* The raw table had its rows been stored in the opposite order: the row
\* at each position keeps the position's id and time of ingestion and
\* carries the location and the payload of the mirrored row.
Reversed(raw) ==
    [i \in DOMAIN raw |->
        [raw[i] EXCEPT !.location_name = raw[Len(raw) + 1 - i].location_name,
                       !.payload = raw[Len(raw) + 1 - i].payload]]

\* Fact rows with each lineage reference moved to the mirrored raw row.
Mirrored(facts, n) == {[w EXCEPT !.raw_id = n + 1 - @] : w \in facts}

\* The raw rows are of pairwise distinct locations.
DistinctLocations(raw) ==
    \A i, j \in DOMAIN raw : raw[i].location_name = raw[j].location_name => i = j

\* C30: (1) a weather transform that directly follows a weather transform,
\* on the same raw rows, leaves every fact row (key, measured values,
\* lineage) as it was, whether a location has one raw row or several;
\* (2) when the raw rows are of distinct locations, the transform on the
\* rows stored in the opposite order produces the same fact rows, each with
\* the lineage of the same payload.
C30_WeatherOrderAndRerun ==
    last.op = "transform_weather_to_fact" =>
        /\ last.prev.op = "transform_weather_to_fact" => weather = last.before.weather
        /\ DistinctLocations(raw_weather) =>
              LET n == Len(raw_weather)
                  other == WeatherTransformOn(Reversed(raw_weather),
                                              Mirrored(last.before.weather, n),
                                              location, now - 1)
              IN Mirrored(other.committed, n) = weather

\* C30 happens: two locations' raw rows were transformed twice; both have
\* facts, those of the row stored second among them.
C30_Witness ==
    /\ last.op = "transform_weather_to_fact"
    /\ last.prev.op = "transform_weather_to_fact"
    /\ Len(raw_weather) = 2 /\ DistinctLocations(raw_weather)
    /\ \E v, w \in weather : /\ v.raw_id = 1 /\ w.raw_id = 2
                             /\ v.location_id # w.location_id

\* The raw row of rec's location that was ingested last.
IsLatestOfLocation(rec) ==
    /\ rec \in Rows(raw_weather)
    /\ \A q \in Rows(raw_weather) :
          q.location_name = rec.location_name => q.ingested_at <= rec.ingested_at

\* C32: a weather transform selects, for each location that has raw rows,
\* exactly one raw row, the one ingested last; every fact row the call
\* inserted or changed carries the id of the selected row of its location
\* and the value that row's payload gives for its timestamp, so that no
\* older raw row contributes a row, a value or a lineage reference.
C32_OnlyLatestRawRowPerLocation ==
    last.op = "transform_weather_to_fact" =>
        /\ \A g \in DOMAIN last.selected : IsLatestOfLocation(last.selected[g])
        /\ \A r \in Rows(raw_weather) :
              Cardinality({g \in DOMAIN last.selected :
                             last.selected[g].location_name = r.location_name}) = 1
        /\ \A w \in weather \ last.before.weather :
              \E g \in DOMAIN last.selected :
                 LET rec == last.selected[g]
                 IN /\ w.raw_id = rec.id
                    /\ \E l \in ResolvedLocations(rec) : l.location_id = w.location_id
                    /\ \E i \in DOMAIN rec.payload.time :
                          /\ rec.payload.time[i] = Some(w.observed_at)
                          /\ w.temperature_celsius = ValueAt(rec.payload.temperature_2m, i)

\* C32 happens: a location has two raw rows with different payloads; the
\* transform wrote facts from the second and none from the first.
C32_Witness ==
    /\ last.op = "transform_weather_to_fact"
    /\ Len(raw_weather) = 2
    /\ raw_weather[1].location_name = raw_weather[2].location_name
    /\ raw_weather[1].payload # raw_weather[2].payload
    /\ HasHourly(raw_weather[1]) /\ BadEntries(raw_weather[1]) = {}
    /\ last.before.weather = {}
    /\ \E w \in weather : w.raw_id = 2
    /\ \A w \in weather : w.raw_id # 1

\* The upserts of selected row g that the call committed: one per entry of
\* a well-formed payload whose location resolves, none otherwise.
CommittedUpserts(g) ==
    LET rec == last.selected[g]
    IN IF ~Malformed(rec) /\ ResolvedLocations(rec) # {}
       THEN Len(rec.payload.time) ELSE 0

RECURSIVE SumCommittedUpserts(_)
SumCommittedUpserts(g) ==
    IF g = 0 THEN 0 ELSE CommittedUpserts(g) + SumCommittedUpserts(g - 1)

\* C33 (as the specification states it): the summary of a weather
\* transform counts what the call committed: rows_inserted is the number of
\* committed upserts, locations_processed the number of locations whose
\* batch was committed.
C33_SummaryFaithful ==
    last.op = "transform_weather_to_fact" =>
        /\ last.result.rows_inserted = SumCommittedUpserts(Len(last.selected))
        /\ last.result.locations_processed =
              Cardinality({g \in DOMAIN last.selected : CommittedUpserts(g) > 0})

\* The fact rows the last transform inserted or overwrote: those that carry
\* the lineage of a raw row it selected and a value of that row's payload.
WrittenByTransform ==
    {w \in weather :
        \E g \in DOMAIN last.selected :
            /\ w.raw_id = last.selected[g].id
            /\ \E i \in DOMAIN last.selected[g].payload.time :
                  EntryWritten(last.selected[g], i)
                    /\ w.observed_at = last.selected[g].payload.time[i][1]}

\* C38 (as the specification states it): when a weather transform wrote no
\* more fact rows than the batch query's limit, every row it inserted or
\* overwrote is in the batch the weather checkpoint reads after it.
C38_WrittenRowsAreInBatch ==
    (/\ last.op = "transform_weather_to_fact"
     /\ Cardinality(WrittenByTransform) <= WindowLimit)
        => WrittenByTransform \subseteq WeatherBatch(weather, WindowLimit)

\* C39: in every committed state a page dimension row is current exactly
\* when its valid_to is null, and no seed load or transform modifies,
\* reopens or removes a row that is closed.
C39_ClosedRowsAreFinal ==
    /\ [](\A r \in wikipedia_page : r.is_current <=> r.valid_to = NULL)
    /\ [][\A r \in wikipedia_page : ~r.is_current => r \in wikipedia_page']_vars

\* C39 happens: a transform changed a dimension that held a closed row, and
\* the closed row is still there as it was.
C39_Witness ==
    /\ last.op = "transform_wikipedia_to_fact"
    /\ wikipedia_page # last.before.wikipedia_page
    /\ \E r \in last.before.wikipedia_page :
            /\ ~r.is_current
            /\ r \in wikipedia_page
            /\ \E c \in wikipedia_page \ last.before.wikipedia_page :
                    /\ c.wikipedia_page_id = r.wikipedia_page_id
                    /\ c.page_language = r.page_language

(***************************************************************************)
(*                  Properties of the raw tables and the seed loader       *)
(***************************************************************************)
\* C21: in every reachable state the lineage reference of each weather
\* fact row is the id of a row of raw.weather_observations, and that of each
\* revision fact row is the id of a row of raw.wikipedia_pages (the row
\* that carries the fact's revision id).
C21_LineageResolves ==
    /\ \A w \in weather : \E r \in Rows(raw_weather) : r.id = w.raw_id
    /\ \A f \in revision :
         \E r \in Rows(raw_wikipedia) :
            r.id = f.raw_id /\ r.revision_id = f.revision_id

\* C21 happens: a transform wrote facts from the second row of its raw
\* table.
C21_Witness ==
    \/ /\ last.op = "transform_wikipedia_to_fact"
       /\ \E f \in revision : f.raw_id = 2 /\ Len(raw_wikipedia) = 2
    \/ /\ last.op = "transform_weather_to_fact"
       /\ \E w \in weather : w.raw_id = 2 /\ Len(raw_weather) = 2

\* C22 (as the specification states it): after a call of the seed loader,
\* every seed location whose own upsert raised no error is a committed row
\* of core.location carrying the seed's attributes, whatever happened to the
\* other locations of the list.
C22_OtherSeedLocationsCommitted ==
    last.op = "ensure_location_dimension" =>
        \A i \in DOMAIN last.seed.locations :
            LET loc == last.seed.locations[i]
            IN loc.err = "none" =>
                  \E r \in location : /\ r.location_name = loc.name
                                      /\ r.region = loc.region

\* The page rows a seed load added, and the external ids of a set of rows.
SeededRows == wikipedia_page \ last.before.wikipedia_page
ExternalIds(rows) == {r.wikipedia_page_id : r \in rows}

\* C23: the page rows a seed load inserts carry negative external ids, one
\* id per row, none of them in use before the call; with k rows inserted the
\* ids are m - 1, ..., m - k, where m is the smallest negative id present
\* before the call (-1 when there is none), so successive calls go down.
C23_SeedIdsDescend ==
    last.op = "ensure_location_dimension" =>
        LET k == Cardinality(SeededRows)
            old == {x \in ExternalIds(last.before.wikipedia_page) : x < 0}
            m == IF old = {} THEN -1 ELSE Min(old)
        IN /\ \A r \in SeededRows : r.wikipedia_page_id < 0
           /\ Cardinality(ExternalIds(SeededRows)) = k
           /\ ExternalIds(SeededRows) \cap ExternalIds(last.before.wikipedia_page) = {}
           /\ ExternalIds(SeededRows) = {m - j : j \in 1..k}
           /\ last.result.pages_inserted = k

\* C23 happens: a seed load inserted a page below the negative id an
\* earlier seed load had allocated, next to a page with a positive id.
C23_Witness ==
    /\ last.op = "ensure_location_dimension"
    /\ -2 \in ExternalIds(last.before.wikipedia_page)
    /\ -3 \in ExternalIds(SeededRows)
    /\ \E r \in wikipedia_page : r.wikipedia_page_id > 0

\* The surrogate ids and natural keys of the location rows.
LocationKeys(rows) ==
    {[location_id |-> r.location_id, location_name |-> r.location_name] : r \in rows}

\* C24: a seed load inserts a page row only for a (title, language) that has
\* no current row, and removes no dimension row; a seed load that directly
\* follows a seed load of the same list inserts no page row, adds no
\* location row and keeps the id and the natural key of every location.
C24_SeedLoadIdempotent ==
    [][ last'.op = "ensure_location_dimension" =>
          /\ wikipedia_page \subseteq wikipedia_page'
          /\ LocationKeys(location) \subseteq LocationKeys(location')
          /\ \A r \in wikipedia_page' \ wikipedia_page :
                ~ \E q \in wikipedia_page : /\ q.page_title = r.page_title
                                            /\ q.page_language = r.page_language
                                            /\ q.is_current
          /\ (last.op = "ensure_location_dimension" /\ last.seed = last'.seed) =>
                /\ wikipedia_page' = wikipedia_page
                /\ LocationKeys(location') = LocationKeys(location)
                /\ last'.result.pages_inserted = 0 ]_vars

\* C24 happens: the one-location seed list was loaded twice in a row.
C24_Witness ==
    /\ last.op = "ensure_location_dimension" /\ last.clean
    /\ last.prev.op = "ensure_location_dimension" /\ last.prev.clean
    /\ Len(last.seed.locations) = 1 /\ Cardinality(location) = 1
    /\ last.result.pages_inserted = 0 /\ last.result.pages_processed = 1
    /\ last.before.location = location

FetchedRows(kind) == IF kind = "weather" THEN Len(raw_weather) ELSE Len(raw_wikipedia)

\* C40 (as the specification states it): over all its attempts, a fetch
\* task that ended in success appended exactly one raw row and a fetch task
\* that ended failed appended none.
C40_OneRawRowPerSuccessfulFetch ==
    \A kind \in FetchKinds :
        /\ FetchTask(kind).state = "completed" => FetchedRows(kind) = 1
        /\ FetchTask(kind).state = "failed" => FetchedRows(kind) = 0

(***************************************************************************)
(*                  Properties of the quality gate                         *)
(***************************************************************************)
\* A checkpoint task in which the validation subsystem raised.
GateRaisedError == weatherGate.result = "error" \/ pageGate.result = "error"

\* C27: the checkpoint task returns on a result without success only when
\* the result carries the skipped flag, and then it logs a warning; a
\* checkpoint task run completes only with a passed validation; and once the
\* validation subsystem raised in a checkpoint task, that task run is
\* failed, the run is failed, and no refresh task run is submitted or
\* started.
C27_GateNeverPassesSilently ==
    /\ \A r \in [success : BOOLEAN, skipped : BOOLEAN] :
          (CheckpointTaskOutcome(r) = "returned" /\ ~r.success) =>
              (r.skipped /\ CheckpointTaskLog(r) = "warning")
    /\ \A g \in {weatherGate, pageGate} :
          /\ g.state = "completed" => g.result = "pass"
          /\ g.result = "error" => g.state = "failed"
    /\ GateRaisedError =>
          /\ pc = "failed"
          /\ refresh = <<>>
          /\ ~RefreshStarted
          /\ summary = NoSummary

\* C27 happens: the weather checkpoint passed, the validation subsystem
\* raised in the Wikipedia checkpoint, and the run is failed.
C27_Witness ==
    /\ weatherGate.state = "completed" /\ weatherGate.result = "pass"
    /\ pageGate.state = "failed" /\ pageGate.result = "error"
    /\ pc = "failed"

\* The outliers of a column are at most 5% of n values.
AtMostFivePercent(col, n) == 20 * col.outside <= n

\* C26 (as the specification states it): the temperature check passes when
\* at most 5% of the rows of the window carry temperature 500, and fails,
\* with the gate reporting failure, when more than 5% of the rows do; the
\* humidity and the wind-speed checks likewise.
C26_FivePercentOfRows ==
    last.op = "run_weather_checkpoint" =>
        LET w == last.window
        IN /\ last.checks.temperature <=> AtMostFivePercent(w.temperature, w.rows)
           /\ last.checks.humidity <=> AtMostFivePercent(w.humidity, w.rows)
           /\ last.checks.wind_speed <=> AtMostFivePercent(w.wind_speed, w.rows)
           /\ ~AtMostFivePercent(w.temperature, w.rows) => last.outcome = "raised"

\* C26 (amended): the temperature check passes exactly when at most 5% of
\* the non-null temperature values of the window are outside [-50, 60]
\* (rows whose temperature is null count neither as values nor as
\* outliers); the humidity and the wind-speed checks likewise; a window in
\* which more than 5% of the rows carry temperature 500 fails the check, and
\* whenever a check fails the gate task raises.
C26_FivePercentOfValues ==
    last.op = "run_weather_checkpoint" =>
        LET w == last.window
        IN /\ last.checks.temperature <=>
                AtMostFivePercent(w.temperature, w.rows - w.temperature.null)
           /\ last.checks.humidity <=>
                AtMostFivePercent(w.humidity, w.rows - w.humidity.null)
           /\ last.checks.wind_speed <=>
                AtMostFivePercent(w.wind_speed, w.rows - w.wind_speed.null)
           /\ ~AtMostFivePercent(w.temperature, w.rows) => ~last.checks.temperature
           /\ (~last.checks.temperature \/ ~last.checks.humidity
                    \/ ~last.checks.wind_speed) => last.outcome = "raised"

\* C26 happens: one of twenty rows carries temperature 500, none is null,
\* and the window passes the check and the gate.
C26_Witness ==
    /\ last.op = "run_weather_checkpoint"
    /\ last.window.rows = 20
    /\ last.window.temperature = [outside |-> 1, null |-> 0]
    /\ last.checks.temperature /\ last.outcome = "returned"

=============================================================================
